---- MODULE Spec2Model ----
(***************************************************************************)
(* A model of yo's ingestion path: the yo_chain_status lease kept by       *)
(* YoDatabase (src/yo/db.py), the follower loop of YoBlockchainFollower    *)
(* (src/yo/services/blockchain_follower.py) and the notification store.    *)
(*                                                                         *)
(* Every database statement is one atomic step; a call of the database     *)
(* API is several steps (clock read, SELECT, INSERT/UPDATE, re-read), and  *)
(* steps of different followers interleave freely.  Statements are taken   *)
(* to execute without a store error (the except: rollback paths of         *)
(* try_update_status / try_active_follower leave the table unchanged).     *)
(***************************************************************************)
EXTENDS Integers, Sequences, FiniteSets, TLC

\* ------------------------------------------------------------------ bounds
\* The wall clock runs from 0 to MaxTime while the followers run.
MaxTime == 3
\* Highest block number the event log serves inside the model.
MaxBlockNum == 3
\* The wall clock runs from 0 to MaxApiTime while the API clients run.
MaxApiTime == 2
\* Highest block number an API client passes to try_update_status.
MaxApiBlock == 1

\* async_task passes max_blocks=10 to run_active (blockchain_follower.py:316);
\* the model runs windows of MaxBlocks blocks.
MaxBlocks == 2
\* async_task asks for a lease of block_interval*10 (blockchain_follower.py:311
\* and 313); the model asks for block_interval * LeaseBlocks.
LeaseBlocks == 2
\* The classifier is fed at most MaxOps operations.
MaxOps == 2
\* The head block of the chain is at most MaxHead when get_start_block runs.
MaxHead == 7
\* A lease holder that stops does so when the clock shows at most
\* MaxHolderTime.
MaxHolderTime == 0
\* check_ratelimit is asked about ledgers of up to MaxLedger + 1 Actions.
MaxLedger == 11
\* A dispatcher runs at most MaxCycles dispatch cycles.
MaxCycles == 2
\* Meanwhile the wall clock shows the first MaxSeconds seconds of an hour and
\* of the hour after it.
MaxSeconds == 1
\* Up to MaxBurst ALWAYS-priority notifications wait for one user.
MaxBurst == 11

\* ------------------------------------------------------- program parameters
\* The follower processes racing for the lease (follower_id, uuid1).
Followers == {"f1", "f2"}
\* blockchain_follower.start_block of the configuration (get_start_block).
StartBlock == 1
\* STEEMIT_BLOCK_INTERVAL of the chain configuration, in clock ticks.
BlockInterval == 1

\* last_processed_block = None (a NULL column): a value no block number takes.
NoBlock == StartBlock - 2

\* Lease lengths and block numbers the free API clients pass.
ApiLeases == {BlockInterval, 2 * BlockInterval}
ApiBlocks == (StartBlock - 1)..MaxApiBlock

VARIABLES
    clock,      \* datetime.datetime.now()
    rows,       \* yo_chain_status, in status_id order
    pc,         \* pc[f]: where follower f is in its code
    now,        \* now[f]: the `now` local of the database call f is in
    sawRow,     \* sawRow[f]: the SELECT of try_active_follower found a row
    argBlock,   \* argBlock[f]: last_processed_block argument of the call
    argLease,   \* argLease[f]: lock_timeout argument of the call
    blockNum,   \* blockNum[f]: block_num of run_active's for loop
    endBlock,   \* endBlock[f]: start_block + max_blocks of run_active
    processed,  \* processed[f]: processed_count of run_active
    wake,       \* wake[f]: the time asyncio.sleep returns
    outcome,    \* outcome[f]: what f's last write did to the status row rows[1]
    sawExpired, \* sawExpired[f]: the row f's SELECT read had lock_expires <= now
    classified, \* blocks whose operations were all passed to notify()
    notifications, \* yo_notifications, in insertion order
    calls,      \* the create_notification calls of the last notify(), in order
    log,        \* the operations passed to notify() so far, in order
    resp,       \* what the last notify() returned, or that it raised
    queue,      \* queue[f]: the asyncio.Queue of f's run_active
    pending,    \* pending[f]: the ops of the block f has not yet put
    trace,      \* what the run_active loops did, in order
    start_config, \* config_data['blockchain_follower']['start_block'], as text
    head_block, \* the head block number of the chain
    start_block, \* what get_start_block returned, or that it was not called
    actions,    \* yo_actions, in insertion order
    checked,    \* the last check_ratelimit call: its arguments and result
    user_settings, \* yo_user_settings, by username
    configured_transports, \* the keys of YoNotificationSender.configured_transports
    broken_transports, \* the configured transports whose send_notification raises
    dpc,        \* dpc[d]: where dispatcher d is in run_send_notify
    unsents,    \* unsents[d]: what is left of the unsents dict of d's cycle
    types_transports, \* types_transports[d]: user_notify_types_transports
    todo,       \* todo[d]: the transports left for the current notification
    cycles,     \* cycles[d]: the run_send_notify calls d has made
    events      \* what the dispatchers did, in order

\* The locals of one database call.
callVars == <<now, sawRow, argBlock, argLease, outcome, sawExpired>>
\* The locals of run_active and async_task.
loopVars == <<blockNum, endBlock, processed, wake>>
leaseVars == <<clock, rows, pc, callVars, loopVars, classified>>

\* The locals of run_active's inner loop.
queueVars == <<queue, pending, trace>>
\* The configuration and the chain async_task reads before its loop.
startVars == <<start_config, head_block, start_block>>
notifyVars == <<notifications, calls, log, resp, queueVars, startVars>>

limitVars == <<actions, checked>>
dispatchVars == <<user_settings, configured_transports, broken_transports, dpc,
                  unsents, types_transports, todo, cycles, events>>
sendVars == <<limitVars, dispatchVars>>

vars == <<leaseVars, notifyVars, sendVars>>

\* ---------------------------------------------------------------- db.py
\* A row of chain_status_table (status_id is its position in rows).
ChainStatusRow(f, blk, lpt, exp) ==
    [active_follower_id |-> f, last_processed_block |-> blk,
     last_processed_time |-> lpt, lock_expires |-> exp]

\* get_chain_status: select().fetchone(), None (<<>>) on an empty table.
GetChainStatus(rs) == IF rs = <<>> THEN <<>> ELSE <<rs[1]>>

\* try_active_follower: .where(lock_expires <= now)
TafWhereAlways(row, t) == TRUE
TafWhereNever(row, t) == FALSE
TafWhereStrict(row, t) == row.lock_expires < t
TafWhere(row, t) == row.lock_expires <= t

\* try_active_follower: update(values=dict(active_follower_id, lock_expires))
TafUpdateRow(row, f, t, lease) ==
    [row EXCEPT !.active_follower_id = f, !.lock_expires = t + lease]

\* try_active_follower: insert(values=dict(...)) on an empty SELECT
TafInsertRow(f, blk, t, lease) == ChainStatusRow(f, blk, t, t + lease)

\* try_update_status: .where(active_follower_id == follower_id)
\*                    .where(last_processed_block <= last_processed_block)
\* (a NULL last_processed_block compares as unknown and matches nothing)
TusWhereAnyFollower(row, f, blk) ==
    /\ row.last_processed_block # NoBlock
    /\ row.last_processed_block <= blk
TusWhereAnyBlock(row, f, blk) == row.active_follower_id = f
TusWhere(row, f, blk) ==
    /\ row.active_follower_id = f
    /\ row.last_processed_block # NoBlock
    /\ row.last_processed_block <= blk

\* try_update_status: update(values=dict(last_processed_block,
\*                           last_processed_time, lock_expires))
TusUpdateRow(row, blk, t, lease) ==
    [row EXCEPT !.last_processed_block = blk, !.last_processed_time = t,
                !.lock_expires = t + lease]

\* The statement try_active_follower executes, on the table as it is then.
TafExecute(rs, f, saw, blk, t, lease) ==
    IF saw
    THEN [i \in 1..Len(rs) |->
            IF TafWhere(rs[i], t) THEN TafUpdateRow(rs[i], f, t, lease) ELSE rs[i]]
    ELSE Append(rs, TafInsertRow(f, blk, t, lease))

\* The statement try_update_status executes.
TusExecuteUnexpired(rs, f, blk, t, lease) ==
    [i \in 1..Len(rs) |->
        IF TusWhere(rs[i], f, blk) /\ rs[i].lock_expires > t
        THEN TusUpdateRow(rs[i], blk, t, lease) ELSE rs[i]]
TusExecute(rs, f, blk, t, lease) ==
    [i \in 1..Len(rs) |->
        IF TusWhere(rs[i], f, blk) THEN TusUpdateRow(rs[i], blk, t, lease) ELSE rs[i]]

\* Which case of try_update_status a call by f with block blk is, judged on the
\* status row get_chain_status returns (a history value, read by no step).
TusCase(rs, f, blk) ==
    IF rs = <<>> THEN "no_row"
    ELSE IF rs[1].active_follower_id # f THEN "not_holder"
    ELSE IF blk < rs[1].last_processed_block THEN "stale"
    ELSE IF blk = rs[1].last_processed_block THEN "refreshed"
    ELSE "advanced"

\* What a call of f that has executed its statement returns if its last line,
\* return self.get_chain_status(), runs now.
Returned(f) == GetChainStatus(rows)

\* The clock advances between any two steps.
ClockTick(max) ==
    /\ clock < max
    /\ clock' = clock + 1
    /\ UNCHANGED <<rows, pc, callVars, loopVars, classified, notifyVars, sendVars>>

Tick == ClockTick(MaxTime)

\* try_active_follower, line 253: now = datetime.datetime.now()
TafNow(f) ==
    /\ pc[f] = "taf_now"
    /\ now' = [now EXCEPT ![f] = clock]
    /\ pc' = [pc EXCEPT ![f] = "taf_select"]
    /\ UNCHANGED <<clock, rows, sawRow, argBlock, argLease, outcome, sawExpired,
                   loopVars, classified, notifyVars, sendVars>>

\* try_active_follower, lines 257-269: the SELECT chooses INSERT or UPDATE
TafSelect(f) ==
    /\ pc[f] = "taf_select"
    /\ sawRow' = [sawRow EXCEPT ![f] = rows # <<>>]
    /\ sawExpired' = [sawExpired EXCEPT
                        ![f] = rows # <<>> /\ rows[1].lock_expires <= now[f]]
    /\ pc' = [pc EXCEPT ![f] = "taf_write"]
    /\ UNCHANGED <<clock, rows, now, argBlock, argLease, outcome, loopVars,
                   classified, notifyVars, sendVars>>

\* try_active_follower, lines 270-272: execute and commit (the arguments the
\* statement has consumed are not read again)
TafWrite(f) ==
    /\ pc[f] = "taf_write"
    /\ rows' = TafExecute(rows, f, sawRow[f], argBlock[f], now[f], argLease[f])
    /\ outcome' = [outcome EXCEPT
                     ![f] = IF rows = <<>> \/ rows'[1] # rows[1]
                            THEN "won" ELSE "lost"]
    /\ sawRow' = [sawRow EXCEPT ![f] = FALSE]
    /\ argBlock' = [argBlock EXCEPT ![f] = NoBlock]
    /\ pc' = [pc EXCEPT ![f] = "taf_get"]
    /\ UNCHANGED <<clock, now, argLease, sawExpired, loopVars, classified, notifyVars, sendVars>>

\* try_update_status, line 223: now = datetime.datetime.now()
TusNow(f) ==
    /\ pc[f] = "tus_now"
    /\ now' = [now EXCEPT ![f] = clock]
    /\ pc' = [pc EXCEPT ![f] = "tus_write"]
    /\ UNCHANGED <<clock, rows, sawRow, argBlock, argLease, outcome, sawExpired,
                   loopVars, classified, notifyVars, sendVars>>

\* try_update_status, lines 226-233: execute and commit (nothing of the call
\* is read again)
TusWrite(f) ==
    /\ pc[f] = "tus_write"
    /\ rows' = TusExecute(rows, f, argBlock[f], now[f], argLease[f])
    /\ outcome' = [outcome EXCEPT ![f] = TusCase(rows, f, argBlock[f])]
    /\ now' = [now EXCEPT ![f] = 0]
    /\ argBlock' = [argBlock EXCEPT ![f] = NoBlock]
    /\ argLease' = [argLease EXCEPT ![f] = 0]
    /\ pc' = [pc EXCEPT ![f] = "tus_get"]
    /\ UNCHANGED <<clock, sawRow, sawExpired, loopVars, classified, notifyVars, sendVars>>

\* ------------------------------------------------ blockchain_follower.py
\* The locals of a database call that has returned go out of scope.
DropCall(f) ==
    /\ now' = [now EXCEPT ![f] = 0]
    /\ sawRow' = [sawRow EXCEPT ![f] = FALSE]
    /\ argBlock' = [argBlock EXCEPT ![f] = NoBlock]
    /\ argLease' = [argLease EXCEPT ![f] = 0]
    /\ outcome' = [outcome EXCEPT ![f] = "none"]
    /\ sawExpired' = [sawExpired EXCEPT ![f] = FALSE]

\* async_task, lines 308-313: read the status, pick the arguments of the call
AsyncTaskGetStatus(f) ==
    /\ pc[f] = "loop"
    /\ argBlock' = [argBlock EXCEPT
                      ![f] = IF GetChainStatus(rows) = <<>>
                             THEN StartBlock - 1 ELSE NoBlock]
    /\ argLease' = [argLease EXCEPT ![f] = BlockInterval * LeaseBlocks]
    /\ pc' = [pc EXCEPT ![f] = "taf_now"]
    /\ UNCHANGED <<clock, rows, now, sawRow, outcome, sawExpired, loopVars,
                   classified, notifyVars, sendVars>>

\* async_task, lines 315-321 on the status try_active_follower returns
AsyncTaskBranch(f) ==
    /\ pc[f] = "taf_get"
    /\ LET st == GetChainStatus(rows)[1] IN
        IF st.active_follower_id = f
        THEN /\ blockNum' = [blockNum EXCEPT ![f] = st.last_processed_block + 1]
             /\ endBlock' = [endBlock EXCEPT
                               ![f] = st.last_processed_block + 1 + MaxBlocks]
             /\ processed' = [processed EXCEPT ![f] = 0]
             /\ pc' = [pc EXCEPT ![f] = "fetch"]
             /\ wake' = wake
        ELSE /\ wake' = [wake EXCEPT ![f] = st.lock_expires]
             /\ pc' = [pc EXCEPT ![f] = "sleep"]
             /\ UNCHANGED <<blockNum, endBlock, processed>>
    /\ DropCall(f)
    /\ UNCHANGED <<clock, rows, classified, notifyVars, sendVars>>

\* async_task, line 321: asyncio.sleep(lock_expires - now) has returned
Sleep(f) ==
    /\ pc[f] = "sleep"
    /\ clock >= wake[f]
    /\ pc' = [pc EXCEPT ![f] = "loop"]
    /\ wake' = [wake EXCEPT ![f] = 0]
    /\ UNCHANGED <<clock, rows, callVars, blockNum, endBlock, processed,
                   classified, notifyVars, sendVars>>

\* run_active, line 340: new_timeout for the call of try_update_status, with
\* max_blocks = MaxBlocks (async_task passes 10) and the processed_count just
\* incremented.
NewTimeoutNoSpare(processed_count) ==
    (MaxBlocks - processed_count) * BlockInterval
NewTimeout(processed_count) ==
    ((MaxBlocks + 1) - processed_count) * BlockInterval

\* run_active, lines 330-341: one pass of the for loop up to try_update_status
\* (ok: get_ops_in_block and the classification raised nothing; otherwise the
\* except clause logs and the loop goes on with the next block_num)
RunActiveBlock(f, ok) ==
    /\ pc[f] = "fetch"
    /\ blockNum[f] < endBlock[f]
    /\ blockNum[f] <= MaxBlockNum
    /\ IF ok
       THEN /\ classified' = classified \cup {blockNum[f]}
            /\ processed' = [processed EXCEPT ![f] = @ + 1]
            /\ argBlock' = [argBlock EXCEPT ![f] = blockNum[f]]
            /\ argLease' = [argLease EXCEPT
                  ![f] = NewTimeout(processed[f] + 1)]
            /\ pc' = [pc EXCEPT ![f] = "tus_now"]
            /\ UNCHANGED blockNum
       ELSE /\ blockNum' = [blockNum EXCEPT ![f] = @ + 1]
            /\ UNCHANGED <<classified, processed, argBlock, argLease, pc>>
    /\ UNCHANGED <<clock, rows, now, sawRow, outcome, sawExpired, endBlock, wake,
                   notifyVars, sendVars>>

\* run_active, line 341: try_update_status returned, its result is dropped
RunActiveNext(f) ==
    /\ pc[f] = "tus_get"
    /\ blockNum' = [blockNum EXCEPT ![f] = @ + 1]
    /\ pc' = [pc EXCEPT ![f] = "fetch"]
    /\ DropCall(f)
    /\ UNCHANGED <<clock, rows, endBlock, processed, wake, classified, notifyVars, sendVars>>

\* run_active returns when the range is exhausted; async_task loops
RunActiveReturn(f) ==
    /\ pc[f] = "fetch"
    /\ blockNum[f] >= endBlock[f]
    /\ pc' = [pc EXCEPT ![f] = "loop"]
    /\ blockNum' = [blockNum EXCEPT ![f] = 0]
    /\ endBlock' = [endBlock EXCEPT ![f] = 0]
    /\ processed' = [processed EXCEPT ![f] = 0]
    /\ UNCHANGED <<clock, rows, callVars, wake, classified, notifyVars, sendVars>>

\* --------------------------------------- clients of the bare database API
\* A client calls try_active_follower with any lease; the call begins by
\* reading the clock (line 253).  last_processed_block is
\* read by the INSERT alone, and whenever the INSERT runs async_task has
\* passed start_block - 1 (rows are never deleted, so the call of line 313,
\* which passes no block, always finds a row).
ApiTryActiveFollower(f, lease) ==
    /\ pc[f] = "idle"
    /\ argBlock' = [argBlock EXCEPT ![f] = StartBlock - 1]
    /\ argLease' = [argLease EXCEPT ![f] = lease]
    /\ now' = [now EXCEPT ![f] = clock]
    /\ pc' = [pc EXCEPT ![f] = "taf_select"]
    /\ UNCHANGED <<clock, rows, sawRow, outcome, sawExpired, loopVars,
                   classified, notifyVars, sendVars>>

\* A client calls try_update_status with any block number and lease; the call
\* begins by reading the clock (line 223).
ApiTryUpdateStatus(f, blk, lease) ==
    /\ pc[f] = "idle"
    /\ argBlock' = [argBlock EXCEPT ![f] = blk]
    /\ argLease' = [argLease EXCEPT ![f] = lease]
    /\ now' = [now EXCEPT ![f] = clock]
    /\ pc' = [pc EXCEPT ![f] = "tus_write"]
    /\ UNCHANGED <<clock, rows, sawRow, outcome, sawExpired, loopVars,
                   classified, notifyVars, sendVars>>

\* try_active_follower / try_update_status, last line:
\* return self.get_chain_status(); the client gets Returned(f) and the
\* call's locals go out of scope.
ApiReturn(f) ==
    /\ pc[f] \in {"taf_get", "tus_get"}
    /\ pc' = [pc EXCEPT ![f] = "idle"]
    /\ DropCall(f)
    /\ UNCHANGED <<clock, rows, loopVars, classified, notifyVars, sendVars>>

\* ------------------------------------------------------ the event classifier
\* NOTIFICATION TYPES (blockchain_follower.py:25-37)
ACCOUNT_UPDATE == "account_update"
COMMENT_REPLY == "comment_reply"
FOLLOW == "follow"
MENTION == "mention"
POST_REPLY == "post_reply"
POWER_DOWN == "power_down"
SEND_STEEM == "send"
RECEIVE_STEEM == "receive"
RESTEEM == "resteem"
VOTE == "vote"

\* Priority.LOW
LOW == 2

\* A column left out of an INSERT is an SQL NULL.
NULL == "NULL"

\* Account names and transaction ids on the chain.
Users == {"alice", "bob"}
TrxIds == {"t1", "t2"}

\* The operations get_ops_in_block serves, by op['op'][0].  A custom_json
\* carries id and json = [json_tag, {json_actor, json_target}] (follower and
\* following of a follow, account and author of a reblog); a comment carries
\* the names MENTION_PATTERN finds in body + '\n' (mentions) and what
\* steem.post.Post(parent).is_comment() answers (parent_is_comment).
VoteOps == [type : {"vote"}, trx_id : TrxIds, voter : Users, author : Users]
CustomJsonOps ==
    [type : {"custom_json"}, trx_id : TrxIds, id : {"follow", "other"},
     json_tag : {"follow", "reblog"}, json_actor : {"alice"},
     json_target : {"bob"},
     required_posting_auths : {<<>>, <<"alice">>, <<"bob">>, <<"alice", "bob">>}]
\* A follow whose json lacks the 'follower' key (json_actor is NULL).
MalformedFollowOps ==
    [type : {"custom_json"}, trx_id : {"t1"}, id : {"follow"},
     json_tag : {"follow"}, json_actor : {NULL}, json_target : {"bob"},
     required_posting_auths : {<<"alice">>}]
AccountUpdateOps == [type : {"account_update"}, trx_id : TrxIds, account : Users]
TransferOps == [type : {"transfer"}, trx_id : TrxIds, from : Users, to : Users]
WithdrawVestingOps ==
    [type : {"withdraw_vesting"}, trx_id : TrxIds, account : Users]
CommentOps ==
    [type : {"comment"}, trx_id : TrxIds, author : {"alice"},
     parent_author : {"", "bob"}, parent_is_comment : BOOLEAN,
     mentions : {<<>>, <<"bob">>, <<"bob", "bob">>}]
OtherOps == [type : {"feed_publish"}, trx_id : TrxIds]
Ops == VoteOps \cup CustomJsonOps \cup AccountUpdateOps \cup TransferOps
          \cup WithdrawVestingOps \cup CommentOps \cup OtherOps

\* The keyword arguments the handlers give store_notification (json_data is
\* read by no step and left out; store_notification's sent=False names no
\* column of yo_notifications and is taken to be dropped by the INSERT).
Notification(type, to, from, trx) ==
    [notify_type |-> type, to_username |-> to, from_username |-> from,
     trx_id |-> trx, priority_level |-> LOW]

\* Each handler, as the store_notification calls it makes, in order.
HandleVoteToVoter(op) == <<Notification(VOTE, op.voter, op.author, op.trx_id)>>
HandleVote(op) == <<Notification(VOTE, op.author, op.voter, op.trx_id)>>

HandleFollowAnySigner(op) ==
    IF op.json_tag # "follow" THEN <<>>
    ELSE <<Notification(FOLLOW, op.json_target, op.json_actor, op.trx_id)>>
HandleFollow(op) ==
    IF op.json_tag # "follow" THEN <<>>
    ELSE IF Len(op.required_posting_auths) # 1 THEN <<>>
    ELSE IF op.required_posting_auths[1] # op.json_actor THEN <<>>
    ELSE <<Notification(FOLLOW, op.json_target, op.json_actor, op.trx_id)>>

HandleAccountUpdate(op) ==
    <<Notification(ACCOUNT_UPDATE, op.account, NULL, op.trx_id)>>

HandleSendToRecipient(op) ==
    <<Notification(SEND_STEEM, op.to, NULL, op.trx_id)>>
HandleSend(op) == <<Notification(SEND_STEEM, op.from, NULL, op.trx_id)>>

HandleReceive(op) == <<Notification(RECEIVE_STEEM, op.to, op.from, op.trx_id)>>

HandlePowerDown(op) == <<Notification(POWER_DOWN, op.account, NULL, op.trx_id)>>

HandleMention(op) ==
    [i \in 1..Len(op.mentions) |->
        Notification(MENTION, op.mentions[i], op.author, op.trx_id)]

HandleComment(op) ==
    IF op.parent_author = "" THEN <<>>
    ELSE <<Notification(IF op.parent_is_comment THEN COMMENT_REPLY ELSE POST_REPLY,
                        op.parent_author, op.author, op.trx_id)>>

HandleResteem(op) ==
    IF op.json_tag # "reblog" THEN <<>>
    ELSE IF Len(op.required_posting_auths) # 1 THEN <<>>
    ELSE IF op.required_posting_auths[1] # op.json_actor THEN <<>>
    ELSE <<Notification(RESTEEM, op.json_target, op.json_actor, op.trx_id)>>

\* notify: the store_notification calls of one operation (asyncio.gather
\* runs its handlers in the order given; none of them suspends).
Candidates(op) ==
    IF op.type = "vote" THEN HandleVote(op)
    ELSE IF op.type = "custom_json"
         THEN IF op.id = "follow" THEN HandleFollow(op) \o HandleResteem(op)
              ELSE <<>>
    ELSE IF op.type = "account_update" THEN HandleAccountUpdate(op)
    ELSE IF op.type = "transfer" THEN HandleSend(op) \o HandleReceive(op)
    ELSE IF op.type = "withdraw_vesting" THEN HandlePowerDown(op)
    ELSE IF op.type = "comment" THEN HandleMention(op) \o HandleComment(op)
    ELSE <<>>

\* The columns of the unique constraint yo_notification_idx.
YoNotificationIdx(n) ==
    <<n.to_username, n.notify_type, n.trx_id, n.from_username>>

\* The INSERT raises the duplicate-entry IntegrityError: a row with the same
\* index columns exists.  SQL NULLs are distinct in a unique index, so a row
\* with a NULL in an index column conflicts with no row.
IsDuplicateEntryError(store, n) ==
    /\ n.trx_id # NULL /\ n.from_username # NULL
    /\ \E i \in 1..Len(store) : YoNotificationIdx(store[i]) = YoNotificationIdx(n)

\* create_notification: the table after the call (the nid is a fresh uuid4)
CreateNotificationStore(store, n) ==
    IF IsDuplicateEntryError(store, n) THEN store ELSE Append(store, n)

\* create_notification: return True of line 656, return False of line 663
CreateNotificationResult(store, n) == ~IsDuplicateEntryError(store, n)

\* The rows of the table that carry the index columns of n.
RowCount(store, n) ==
    Cardinality({i \in 1..Len(store) :
                    YoNotificationIdx(store[i]) = YoNotificationIdx(n)})

\* The table after create_notification was called for each of ns in order.
RECURSIVE StoreAll(_, _)
StoreAll(store, ns) ==
    IF ns = <<>> THEN store
    ELSE StoreAll(CreateNotificationStore(store, Head(ns)), Tail(ns))

\* What each of these calls found and returned (history values):
\* exists, a row with the index columns of the notification was there;
\* result, the value returned; added, the call added a row.
RECURSIVE CallsOf(_, _)
CallsOf(store, ns) ==
    IF ns = <<>> THEN <<>>
    ELSE <<[notification |-> Head(ns),
            exists |-> RowCount(store, Head(ns)) > 0,
            result |-> CreateNotificationResult(store, Head(ns)),
            added |-> CreateNotificationStore(store, Head(ns)) # store]>>
         \o CallsOf(CreateNotificationStore(store, Head(ns)), Tail(ns))

\* The values notify returns: True/False, or the list asyncio.gather makes of
\* its handlers' results; PyRaised stands for an exception leaving notify.
PyBool(b) == [kind |-> "bool", bool |-> b, list |-> <<>>]
PyList(l) == [kind |-> "list", bool |-> FALSE, list |-> l]
PyRaised == [kind |-> "raised", bool |-> FALSE, list |-> <<>>]
NoResp == [kind |-> "none", bool |-> FALSE, list |-> <<>>]

\* Python's truth value of what notify returned (`if not resp`, `if
\* runner_resp`): a list is true unless empty.
TruthyAlways(v) == TRUE
Truthy(v) == IF v.kind = "bool" THEN v.bool ELSE Len(v.list) > 0

\* What each handler returns.
HandleFollowResult(op) ==
    IF op.json_tag # "follow" THEN FALSE
    ELSE IF Len(op.required_posting_auths) # 1 THEN FALSE
    ELSE IF op.required_posting_auths[1] # op.json_actor THEN FALSE
    ELSE TRUE
HandleResteemResult(op) == TRUE

\* handle_follow, line 78: follow_data[1]['follower'] raises KeyError (before
\* anything is stored; handle_resteem has nothing to store for a follow).
NotifyRaises(op) ==
    op.type = "custom_json" /\ op.id = "follow" /\ op.json_tag = "follow"
        /\ op.json_actor = NULL

\* notify, lines 229-268: what it returns
NotifyResultFalsyDefault(op) ==
    IF op.type \in {"vote", "account_update", "transfer", "withdraw_vesting",
                    "comment"}
    THEN PyBool(TRUE)
    ELSE IF op.type = "custom_json" /\ op.id = "follow" THEN PyBool(TRUE)
    ELSE PyBool(FALSE)
NotifyResult(op) ==
    IF NotifyRaises(op) THEN PyRaised
    ELSE IF op.type = "vote" THEN PyBool(TRUE)
    ELSE IF op.type = "custom_json"
         THEN IF op.id = "follow"
              THEN PyList(<<HandleFollowResult(op), HandleResteemResult(op)>>)
              ELSE PyBool(TRUE)
    ELSE IF op.type = "account_update" THEN PyBool(TRUE)
    ELSE IF op.type = "transfer" THEN PyList(<<TRUE, TRUE>>)
    ELSE IF op.type = "withdraw_vesting" THEN PyBool(TRUE)
    ELSE IF op.type = "comment" THEN PyList(<<TRUE, TRUE>>)
    ELSE PyBool(TRUE)

\* The store_notification calls notify(op) makes before it returns or raises.
Stored(op) == IF NotifyRaises(op) THEN <<>> ELSE Candidates(op)

\* What notify(op) does to the store and what it answers.
Classify(op) ==
    /\ notifications' = StoreAll(notifications, Stored(op))
    /\ calls' = CallsOf(notifications, Stored(op))
    /\ log' = Append(log, op)
    /\ resp' = NotifyResult(op)

\* notify(op): one operation goes through the classifier.
Notify(op) ==
    /\ Len(log) < MaxOps
    /\ Classify(op)
    /\ UNCHANGED <<leaseVars, queueVars, startVars, sendVars>>

InitQueue ==
    /\ resp = NoResp
    /\ queue = [f \in Followers |-> <<>>]
    /\ pending = [f \in Followers |-> <<>>]
    /\ trace = <<>>

\* ---------------------------------------------------- get_start_block
\* The text of a configuration value: its characters in order.
DigitOf(c) ==
    CASE c = "0" -> 0 [] c = "1" -> 1 [] c = "2" -> 2 [] c = "3" -> 3

\* int(text) for a text of decimal digits with an optional minus sign.
RECURSIVE DecimalValue(_)
DecimalValue(s) ==
    IF s = <<>> THEN 0
    ELSE DecimalValue(SubSeq(s, 1, Len(s) - 1)) * 10 + DigitOf(s[Len(s)])
PyInt(s) == IF Head(s) = "-" THEN 0 - DecimalValue(Tail(s)) ELSE DecimalValue(s)

StartNotCalled == [kind |-> "not_called", value |-> 0]
StartNone == [kind |-> "none", value |-> 0]
StartInt(n) == [kind |-> "int", value |-> n]

\* get_start_block, lines 284-298, with b.get_current_block_num() = head.
GetStartBlock(text, head) ==
    IF text = <<>> THEN StartNone
    ELSE IF PyInt(text) < 0 THEN StartInt(head - PyInt(text))
    ELSE StartInt(PyInt(text))

\* The configuration the followers of this model run with.
StartConfig == <<"1">>

InitStart ==
    /\ start_config = StartConfig
    /\ head_block = MaxBlockNum
    /\ start_block = GetStartBlock(StartConfig, MaxBlockNum)

InitNotify ==
    /\ notifications = <<>>
    /\ calls = <<>>
    /\ log = <<>>
    /\ InitQueue
    /\ InitStart

\* An empty yo_chain_status and followers that have not called the database.
InitFollowers(start) ==
    /\ rows = <<>>
    /\ pc = [f \in Followers |-> start]
    /\ now = [f \in Followers |-> 0]
    /\ sawRow = [f \in Followers |-> FALSE]
    /\ argBlock = [f \in Followers |-> NoBlock]
    /\ argLease = [f \in Followers |-> 0]
    /\ blockNum = [f \in Followers |-> 0]
    /\ endBlock = [f \in Followers |-> 0]
    /\ processed = [f \in Followers |-> 0]
    /\ wake = [f \in Followers |-> 0]
    /\ outcome = [f \in Followers |-> "none"]
    /\ sawExpired = [f \in Followers |-> FALSE]
    /\ classified = {}

InitLease(start) ==
    /\ clock = 0
    /\ InitFollowers(start)

\* ------------------------------------------------------------ ratelimits.py
\* class Priority(IntFlag)
MARKETING == 1
NORMAL == 3
PRIORITY == 4
ALWAYS == 5

\* The timeframes check_ratelimit passes to get_priority_count, in seconds.
MinuteWindow == 60
HourWindow == 3600
DayWindow == 86400

\* A row of actions_table as mark_sent inserts it (status is always 'Sent';
\* aid is the row's position in actions).
ActionUnaddressed(nid, transport, to, priority, t) ==
    [nid |-> nid, transport |-> transport, to_username |-> NULL,
     priority_level |-> priority, created_at |-> t]
Action(nid, transport, to, priority, t) ==
    [nid |-> nid, transport |-> transport, to_username |-> to,
     priority_level |-> priority, created_at |-> t]

\* get_priority_count at time t: the rows of the user with priority_level >=
\* priority and created_at >= t - timeframe.
GetPriorityCountExact(acts, to_username, priority, timeframe, t) ==
    Cardinality({i \in 1..Len(acts) :
                    /\ acts[i].to_username = to_username
                    /\ acts[i].priority_level = priority
                    /\ acts[i].created_at >= t - timeframe})
GetPriorityCountAnyUser(acts, to_username, priority, timeframe, t) ==
    Cardinality({i \in 1..Len(acts) :
                    /\ acts[i].priority_level >= priority
                    /\ acts[i].created_at >= t - timeframe})
GetPriorityCount(acts, to_username, priority, timeframe, t) ==
    Cardinality({i \in 1..Len(acts) :
                    /\ acts[i].to_username = to_username
                    /\ acts[i].priority_level >= priority
                    /\ acts[i].created_at >= t - timeframe})

\* check_ratelimit, line 32: the comparison of the ALWAYS branch
AlwaysLimitNine(count) == count < 9
AlwaysLimit(count) == count < 10

\* lines 35-40: the PRIORITY branch
PriorityLimit(count, override) ==
    IF override THEN count <= 10 ELSE count <= 1

\* lines 43-48: the NORMAL branch
NormalLimit(count, override) ==
    IF override THEN count < 3 ELSE count <= 1

\* lines 53-58: the LOW branch
LowLimitOverrideEleven(count, override) ==
    IF override THEN count <= 10 ELSE count = 0
LowLimitSoftOne(count, override) ==
    IF override THEN count < 10 ELSE count <= 1
LowLimit(count, override) ==
    IF override THEN count < 10 ELSE count = 0

\* lines 61-66: the MARKETING branch (the two counts are those of the trailing
\* day and of the trailing hour)
MarketingLimitLooser(countDay, countHour, override) ==
    IF override THEN countHour <= 1 ELSE countDay <= 1
MarketingLimit(countDay, countHour, override) ==
    IF override THEN countDay <= 1 ELSE countHour <= 1

\* line 72: return False  # for invalid stuff, assume it's bad
InvalidPriorityAllowed == TRUE
InvalidPriority == FALSE

\* check_ratelimit(db, notification_object, override) called at time t
CheckRatelimit(acts, n, override, t) ==
    LET notification_priority == n.priority_level
        to_username == n.to_username
        Count(priority, timeframe) ==
            GetPriorityCount(acts, to_username, priority, timeframe, t)
    IN  IF notification_priority = ALWAYS
        THEN AlwaysLimit(Count(ALWAYS, HourWindow))
        ELSE IF notification_priority = PRIORITY
        THEN PriorityLimit(Count(PRIORITY, HourWindow), override)
        ELSE IF notification_priority = NORMAL
        THEN NormalLimit(Count(NORMAL, MinuteWindow), override)
        ELSE IF notification_priority = LOW
        THEN LowLimit(Count(LOW, HourWindow), override)
        ELSE IF notification_priority = MARKETING
        THEN MarketingLimit(Count(MARKETING, DayWindow),
                            Count(MARKETING, HourWindow), override)
        ELSE InvalidPriority

\* get_priority_count when conn.execute raises: the except clause logs the
\* exception and retval, still 0, is returned.
GetPriorityCountRaised == 0

\* check_ratelimit when the get_priority_count call whose result it compares
\* met a store error.
CheckRatelimitStoreError(n, override) ==
    LET notification_priority == n.priority_level
        count == GetPriorityCountRaised
    IN  IF notification_priority = ALWAYS
        THEN AlwaysLimit(count)
        ELSE IF notification_priority = PRIORITY
        THEN PriorityLimit(count, override)
        ELSE IF notification_priority = NORMAL
        THEN NormalLimit(count, override)
        ELSE IF notification_priority = LOW
        THEN LowLimit(count, override)
        ELSE IF notification_priority = MARKETING
        THEN MarketingLimit(count, count, override)
        ELSE InvalidPriority

\* No check_ratelimit call has been made.
NoCheck == [to_username |-> NULL, priority_level |-> 0, override |-> FALSE,
            result |-> FALSE]

\* A caller asks check_ratelimit about a notification to user u of priority p
\* (the call writes nothing, so a second call on the same ledger shows nothing
\* the first could not).
CheckRatelimitCall(u, p, override) ==
    /\ checked = NoCheck
    /\ checked' = [to_username |-> u, priority_level |-> p,
                   override |-> override,
                   result |-> CheckRatelimit(actions,
                                 [to_username |-> u, priority_level |-> p],
                                 override, clock)]
    /\ UNCHANGED <<leaseVars, notifyVars, actions, dispatchVars>>

InitLimit ==
    /\ actions = <<>>
    /\ checked = NoCheck

\* ------------------------------------------------- notification_sender.py
\* The dispatcher processes (YoNotificationSender instances).
Dispatchers == {"d1", "d2"}

\* NOTIFY_TYPES (db.py:20-22)
NOTIFY_TYPES ==
    {"power_down", "power_up", "resteem", "feed", "reward", "send", "mention",
     "follow", "vote", "comment_reply", "post_reply", "account_update",
     "message", "receive"}

\* A transport entry of a user's transports object (sub_data is handed to the
\* transport untouched and left out).
Transport(name, types) == [name |-> name, notification_types |-> types]

\* DEFAULT_USER_TRANSPORT_SETTINGS (db.py:35-48)
DEFAULT_USER_TRANSPORT_SETTINGS ==
    <<Transport("email", {}), Transport("wwwpoll", NOTIFY_TYPES)>>

\* A user's row of user_settings_table: absent, holding a transports object,
\* or holding text json.loads cannot read.
NoUserRow == [kind |-> "missing", transports |-> <<>>]
CorruptUserRow == [kind |-> "corrupt", transports |-> <<>>]
UserRow(ts) == [kind |-> "row", transports |-> ts]

\* get_user_transports: what it returns (loaded = FALSE: None).  A missing row
\* is created by create_user with the defaults and read again; a row that
\* cannot be read stays (create_user fails on the primary key) and None is
\* returned.
GetUserTransports(settings, username) ==
    IF settings[username].kind = "row"
    THEN [loaded |-> TRUE, transports |-> settings[username].transports]
    ELSE IF settings[username].kind = "missing"
    THEN [loaded |-> TRUE, transports |-> DEFAULT_USER_TRANSPORT_SETTINGS]
    ELSE [loaded |-> FALSE, transports |-> <<>>]

\* get_user_transports: user_settings_table after the call
GetUserTransportsStore(settings, username) ==
    IF settings[username].kind = "missing"
    THEN [settings EXCEPT ![username] = UserRow(DEFAULT_USER_TRANSPORT_SETTINGS)]
    ELSE settings

\* run_send_notify, lines 40-46: user_notify_types_transports, a dict from
\* each enabled notify_type to the transports enabled for it, in order
UserNotifyTypesTransportsAll(user_transports) ==
    [notify_type \in NOTIFY_TYPES |->
        [i \in 1..Len(user_transports) |-> user_transports[i].name]]
UserNotifyTypesTransports(user_transports) ==
    [notify_type \in UNION {user_transports[i].notification_types :
                               i \in 1..Len(user_transports)} |->
        LET enabled == SelectSeq(user_transports,
                           LAMBDA e : notify_type \in e.notification_types)
        IN  [i \in 1..Len(enabled) |-> enabled[i].name]]

\* get_wwwpoll_unsents: the notifications no Action names, grouped by
\* to_username in the order of their first row (a nid is the row's position
\* in notifications; rows are read in insertion order).
UnsentNidsAll(store, acts) == [i \in 1..Len(store) |-> i]
UnsentNidsNeverChecked(store, acts) ==
    SelectSeq([i \in 1..Len(store) |-> i],
              LAMBDA i : /\ \A j \in 1..Len(acts) : acts[j].nid # i
                         /\ \A k \in 1..Len(events) :
                               ~(events[k].ev = "check" /\ events[k].nid = i))
UnsentNids(store, acts) ==
    SelectSeq([i \in 1..Len(store) |-> i],
              LAMBDA i : \A j \in 1..Len(acts) : acts[j].nid # i)

RECURSIVE GroupByUser(_, _)
GroupByUser(store, nids) ==
    IF nids = <<>> THEN <<>>
    ELSE LET username == store[Head(nids)].to_username
         IN  <<[username |-> username,
                notifications |->
                    SelectSeq(nids, LAMBDA i : store[i].to_username = username)]>>
             \o GroupByUser(store,
                    SelectSeq(nids, LAMBDA i : store[i].to_username # username))

GetWwwpollUnsents(store, acts) == GroupByUser(store, UnsentNids(store, acts))

\* What the dispatcher did, in order (history, read by no step): check, a
\* check_ratelimit call and its result; send, a send_notification call and
\* whether it returned; unconfigured, a transport of the user's preferences
\* that configured_transports does not hold; raise, an exception that left
\* run_send_notify.  username is the user of unsents.items() the loop is at,
\* which a send passes as to_username.
Event(ev, d, nid, transport, ok) ==
    [ev |-> ev, d |-> d, cycle |-> cycles[d], nid |-> nid,
     username |-> Head(unsents[d]).username,
     transport |-> transport, ok |-> ok, unsents |-> <<>>]

\* start, the beginning of a cycle and what get_wwwpoll_unsents returned.
StartEvent(d, snapshot) ==
    [ev |-> "start", d |-> d, cycle |-> cycles[d] + 1, nid |-> 0,
     username |-> NULL, transport |-> "", ok |-> TRUE, unsents |-> snapshot]

\* The cycle of d is over: its locals go out of scope.
EndCycle(d) ==
    /\ dpc' = [dpc EXCEPT ![d] = "idle"]
    /\ unsents' = [unsents EXCEPT ![d] = <<>>]
    /\ types_transports' = [types_transports EXCEPT ![d] = <<>>]
    /\ todo' = [todo EXCEPT ![d] = <<>>]

\* run_send_notify, line 32: unsents = self.db.get_wwwpoll_unsents()
StartCycle(d) ==
    /\ dpc[d] = "idle"
    /\ cycles[d] < MaxCycles
    /\ cycles' = [cycles EXCEPT ![d] = @ + 1]
    /\ unsents' = [unsents EXCEPT
                     ![d] = GetWwwpollUnsents(notifications, actions)]
    /\ events' = Append(events,
          StartEvent(d, GetWwwpollUnsents(notifications, actions)))
    /\ dpc' = [dpc EXCEPT ![d] = "user"]
    /\ UNCHANGED <<leaseVars, notifyVars, limitVars, user_settings,
                   configured_transports, broken_transports, types_transports,
                   todo>>

\* lines 35-46: the next user of unsents.items(); its transports are loaded
\* and user_notify_types_transports is built.  None from get_user_transports
\* makes user_transports.items() raise AttributeError, which nothing catches.
LoadUser(d) ==
    /\ dpc[d] = "user"
    /\ IF unsents[d] = <<>>
       THEN /\ EndCycle(d)
            /\ UNCHANGED <<user_settings, events>>
       ELSE LET username == Head(unsents[d]).username
                user_transports == GetUserTransports(user_settings, username)
            IN  /\ user_settings' = GetUserTransportsStore(user_settings, username)
                /\ IF user_transports.loaded
                   THEN /\ types_transports' = [types_transports EXCEPT
                               ![d] = UserNotifyTypesTransports(
                                          user_transports.transports)]
                        /\ dpc' = [dpc EXCEPT ![d] = "check"]
                        /\ UNCHANGED <<unsents, todo, events>>
                   ELSE /\ events' = Append(events,
                               Event("raise", d, 0, "AttributeError", FALSE))
                        /\ EndCycle(d)
    /\ UNCHANGED <<leaseVars, notifyVars, limitVars, configured_transports,
                   broken_transports, cycles>>

\* The notification at the head of the current user's list is done with.
NextNotification(d) ==
    unsents' = [unsents EXCEPT
                  ![d] = <<[Head(@) EXCEPT !.notifications = Tail(@)]>>
                            \o Tail(@)]

\* lines 47-55: the next notification of the user: check_ratelimit, then the
\* transports of its type.  A type that is no key of
\* user_notify_types_transports raises KeyError, which nothing catches.
CheckNotification(d) ==
    /\ dpc[d] = "check"
    /\ IF Head(unsents[d]).notifications = <<>>
       THEN /\ unsents' = [unsents EXCEPT ![d] = Tail(@)]
            /\ dpc' = [dpc EXCEPT ![d] = "user"]
            /\ UNCHANGED <<types_transports, todo, events>>
       ELSE LET nid == Head(Head(unsents[d]).notifications)
                notification == notifications[nid]
                allowed == CheckRatelimit(actions, notification, FALSE, clock)
                checkedEvent == Append(events, Event("check", d, nid, "", allowed))
            IN  IF ~allowed
                THEN /\ events' = checkedEvent
                     /\ NextNotification(d)
                     /\ UNCHANGED <<dpc, types_transports, todo>>
                ELSE IF notification.notify_type \notin DOMAIN types_transports[d]
                THEN /\ events' = Append(checkedEvent,
                                       Event("raise", d, nid, "KeyError", FALSE))
                     /\ EndCycle(d)
                ELSE /\ events' = checkedEvent
                     /\ todo' = [todo EXCEPT
                           ![d] = types_transports[d][notification.notify_type]]
                     /\ dpc' = [dpc EXCEPT ![d] = "send"]
                     /\ UNCHANGED <<unsents, types_transports>>
    /\ UNCHANGED <<leaseVars, notifyVars, limitVars, user_settings,
                   configured_transports, broken_transports, cycles>>

\* lines 47-55 when the Action-count query of check_ratelimit meets a store
\* error; checked keeps the call and what it returned.
CheckNotificationStoreError(d) ==
    /\ dpc[d] = "check"
    /\ Head(unsents[d]).notifications # <<>>
    /\ LET nid == Head(Head(unsents[d]).notifications)
           notification == notifications[nid]
           allowed == CheckRatelimitStoreError(notification, FALSE)
           checkedEvent == Append(events, Event("check", d, nid, "", allowed))
       IN  /\ checked' = [to_username |-> notification.to_username,
                          priority_level |-> notification.priority_level,
                          override |-> FALSE, result |-> allowed]
           /\ IF ~allowed
              THEN /\ events' = checkedEvent
                   /\ NextNotification(d)
                   /\ UNCHANGED <<dpc, types_transports, todo>>
              ELSE IF notification.notify_type \notin DOMAIN types_transports[d]
              THEN /\ events' = Append(checkedEvent,
                                     Event("raise", d, nid, "KeyError", FALSE))
                   /\ EndCycle(d)
              ELSE /\ events' = checkedEvent
                   /\ todo' = [todo EXCEPT
                         ![d] = types_transports[d][notification.notify_type]]
                   /\ dpc' = [dpc EXCEPT ![d] = "send"]
                   /\ UNCHANGED <<unsents, types_transports>>
    /\ UNCHANGED <<leaseVars, notifyVars, actions, user_settings,
                   configured_transports, broken_transports, cycles>>

\* lines 54-66: the next transport of the notification: send_notification,
\* then mark_sent; whatever the try block raises (no such configured
\* transport, a failing send) is logged and the loop goes on.
SendNotification(d) ==
    /\ dpc[d] = "send"
    /\ IF todo[d] = <<>>
       THEN /\ NextNotification(d)
            /\ dpc' = [dpc EXCEPT ![d] = "check"]
            /\ UNCHANGED <<todo, events, actions>>
       ELSE LET nid == Head(Head(unsents[d]).notifications)
                notification == notifications[nid]
                t == Head(todo[d])
            IN  /\ todo' = [todo EXCEPT ![d] = Tail(@)]
                /\ UNCHANGED <<unsents, dpc>>
                /\ IF t \notin configured_transports
                   THEN /\ events' = Append(events,
                                         Event("unconfigured", d, nid, t, FALSE))
                        /\ UNCHANGED actions
                   ELSE IF t \in broken_transports
                   THEN /\ events' = Append(events,
                                         Event("send", d, nid, t, FALSE))
                        /\ UNCHANGED actions
                   ELSE /\ events' = Append(events,
                                         Event("send", d, nid, t, TRUE))
                        /\ actions' = Append(actions,
                               Action(nid, t, notification.to_username,
                                      notification.priority_level, clock))
    /\ UNCHANGED <<leaseVars, notifyVars, checked, user_settings,
                   configured_transports, broken_transports, types_transports,
                   cycles>>

\* The clock moves on by a second or by an hour.
ClockJump(dt) ==
    /\ (clock + dt) % HourWindow <= MaxSeconds
    /\ clock + dt <= HourWindow + MaxSeconds
    /\ clock' = clock + dt
    /\ UNCHANGED <<rows, pc, callVars, loopVars, classified, notifyVars, sendVars>>

\* Idle dispatchers with nothing configured beyond the defaults.
InitDispatchers ==
    /\ dpc = [d \in Dispatchers |-> "idle"]
    /\ unsents = [d \in Dispatchers |-> <<>>]
    /\ types_transports = [d \in Dispatchers |-> <<>>]
    /\ todo = [d \in Dispatchers |-> <<>>]
    /\ cycles = [d \in Dispatchers |-> 0]
    /\ events = <<>>

InitDispatch ==
    /\ InitDispatchers
    /\ user_settings = [u \in Users |-> NoUserRow]
    /\ configured_transports = {"wwwpoll"}
    /\ broken_transports = {}

InitSend == InitLimit /\ InitDispatch

\* The ledgers check_ratelimit is asked about: up to MaxLedger Actions of one
\* user, one priority and one age, and up to one Action of any other kind.
Ages == {0, MinuteWindow, MinuteWindow + 1, HourWindow, HourWindow + 1,
         DayWindow, DayWindow + 1}
Priorities == {MARKETING, LOW, NORMAL, PRIORITY, ALWAYS}
\* priority_level values check_ratelimit is called with: the five tiers and
\* the two nearest values outside them
AnyPriorities == (MARKETING - 1)..(ALWAYS + 1)

Ledger(k, u, p, age, t) == [i \in 1..k |-> Action(i, "wwwpoll", u, p, t - age)]

InitLimits ==
    /\ InitFollowers("idle") /\ InitNotify
    /\ clock = DayWindow + 1
    /\ checked = NoCheck
    /\ InitDispatch
    /\ \E k \in 0..MaxLedger, p \in Priorities, age \in Ages,
          j \in 0..1, u2 \in Users, p2 \in Priorities,
          age2 \in {0} :
            actions = Ledger(k, "alice", p, age, clock)
                         \o Ledger(j, u2, p2, age2, clock)

NextLimits ==
    \E u \in Users, p \in AnyPriorities, override \in BOOLEAN :
        CheckRatelimitCall(u, p, override)

SpecLimits == InitLimits /\ [][NextLimits]_vars

\* The follower processes, each running async_task.
Init == InitLease("loop") /\ InitNotify /\ InitSend

Next ==
    \/ Tick
    \/ \E f \in Followers :
        \/ AsyncTaskGetStatus(f)
        \/ TafNow(f)
        \/ TafSelect(f)
        \/ TafWrite(f)
        \/ AsyncTaskBranch(f)
        \/ Sleep(f)
        \/ \E ok \in BOOLEAN : RunActiveBlock(f, ok)
        \/ TusNow(f)
        \/ TusWrite(f)
        \/ RunActiveNext(f)
        \/ RunActiveReturn(f)

Spec == Init /\ [][Next]_vars

\* ----------------------------------------------------- start of async_task
\* The start_block texts of the configuration: blank, non-negative and
\* negative integers.
ConfigTexts ==
    {<<>>, <<"0">>, <<"1">>, <<"3">>, <<"1", "2">>,
     <<"-", "1">>, <<"-", "3">>, <<"-", "1", "0">>}

InitStartBlock ==
    /\ InitLease("idle") /\ InitSend
    /\ notifications = <<>> /\ calls = <<>> /\ log = <<>> /\ InitQueue
    /\ start_config \in ConfigTexts
    /\ head_block \in 0..MaxHead
    /\ start_block = StartNotCalled

\* async_task, line 304: start_block = self.get_start_block(chain)
GetStartBlockCall ==
    /\ start_block = StartNotCalled
    /\ start_block' = GetStartBlock(start_config, head_block)
    /\ UNCHANGED <<leaseVars, notifications, calls, log, resp, queueVars,
                   start_config, head_block, sendVars>>

SpecStart == InitStartBlock /\ [][GetStartBlockCall]_vars

\* ------------------------------------------------------ a growing chain
\* The followers of Spec on a chain whose head is block StartBlock at first
\* and grows.  run_active does not ask for the head: get_ops_in_block is
\* called for every block_num of the range, and for a block the chain does
\* not hold yet the client either returns no operations or raises (both
\* outcomes of RunActiveBlock).
InitHead ==
    /\ InitLease("loop") /\ InitSend
    /\ notifications = <<>> /\ calls = <<>> /\ log = <<>> /\ InitQueue
    /\ start_config = StartConfig
    /\ head_block = StartBlock
    /\ start_block = GetStartBlock(StartConfig, StartBlock)

\* The chain produces its next block.
ProduceBlock ==
    /\ head_block < MaxBlockNum
    /\ head_block' = head_block + 1
    /\ UNCHANGED <<leaseVars, notifications, calls, log, resp, queueVars,
                   start_config, start_block, sendVars>>

NextHead == Next \/ ProduceBlock

SpecHead == InitHead /\ [][NextHead]_vars

\* ------------------------------------------------------------- takeover
\* Two followers, of which "f1" may stop for good at any point (its process
\* crashes or stalls) while "f2" keeps running and the clock keeps going.
Stopping == "f1"
Running == "f2"

\* The clock goes on until every lease the stopped follower can have taken
\* has run out.
MaxLiveTime ==
    MaxHolderTime
      + (IF LeaseBlocks > MaxBlocks THEN LeaseBlocks ELSE MaxBlocks) * BlockInterval

FollowerStep(f) ==
    \/ AsyncTaskGetStatus(f)
    \/ TafNow(f)
    \/ TafSelect(f)
    \/ TafWrite(f)
    \/ AsyncTaskBranch(f)
    \/ Sleep(f)
    \/ \E ok \in BOOLEAN : RunActiveBlock(f, ok)
    \/ TusNow(f)
    \/ TusWrite(f)
    \/ RunActiveNext(f)
    \/ RunActiveReturn(f)

\* The process of f ends or hangs: none of its statements runs any more.
Stop(f) ==
    /\ pc[f] # "stopped"
    /\ pc' = [pc EXCEPT ![f] = "stopped"]
    /\ UNCHANGED <<clock, rows, callVars, loopVars, classified, notifyVars,
                   sendVars>>

TickLive == ClockTick(MaxLiveTime)

NextLive ==
    \/ TickLive
    \/ clock <= MaxHolderTime /\ FollowerStep(Stopping)
    \/ Stop(Stopping)
    \/ FollowerStep(Running)

\* asyncio runs the coroutine of a live follower whenever it can go on, and
\* time passes.
SpecLive ==
    /\ Init /\ [][NextLive]_vars
    /\ WF_vars(TickLive)
    /\ WF_vars(FollowerStep(Running))

\* ------------------------------------------- run_active, operation by operation
\* One follower running async_task, with the body of run_active's for loop
\* taken statement by statement: queue[f] is the asyncio.Queue of the call,
\* pending[f] the operations of the block not yet put on it, and trace the
\* fetches, notify calls, try_update_status calls and caught exceptions of
\* the call so far.
QueueFollower == "f1"

\* The operations a block may hold: a vote, a follow whose json lacks the
\* 'follower' key, and a follow signed by somebody else.
QueueOps ==
    {op \in VoteOps : op.voter = "alice" /\ op.author = "bob" /\ op.trx_id = "t1"}
    \cup MalformedFollowOps
    \cup {op \in CustomJsonOps :
            /\ op.id = "follow" /\ op.json_tag = "follow" /\ op.trx_id = "t1"
            /\ op.required_posting_auths = <<"bob">>}

BlockContents ==
    {<<>>} \cup {<<op>> : op \in QueueOps}
           \cup {<<op1, op2>> : op1 \in QueueOps, op2 \in QueueOps}

TraceEvent(ev, f, op, r) ==
    [ev |-> ev, f |-> f, block |-> blockNum[f], op |-> op, resp |-> r]

\* run_active, line 330: the first pass of the for loop of a call.
FirstPass(f) == blockNum[f] = endBlock[f] - MaxBlocks

\* The block the for loop goes on with when the except clause of line 342
\* has caught an exception of the pass for block_num.
AfterExceptionWindowLeft(block_num, end) == end
AfterExceptionSameBlock(block_num, end) == block_num
AfterException(block_num, end) == block_num + 1

\* run_active, line 332: get_ops_in_block returns the operations of the block
\* or raises (ok = FALSE), which ends the pass for this block.
RunActiveGetOps(f, ok, ops) ==
    /\ pc[f] = "fetch"
    /\ blockNum[f] < endBlock[f]
    /\ blockNum[f] <= MaxBlockNum
    /\ LET before == IF FirstPass(f) THEN <<>> ELSE trace
           q == IF FirstPass(f) THEN <<>> ELSE queue[f]
       IN  IF ok
           THEN /\ trace' = Append(before, TraceEvent("fetch", f, NULL, NoResp))
                /\ pending' = [pending EXCEPT ![f] = ops]
                /\ queue' = [queue EXCEPT ![f] = q]
                /\ pc' = [pc EXCEPT ![f] = "put"]
                /\ UNCHANGED blockNum
           ELSE /\ trace' = before \o <<TraceEvent("fetch", f, NULL, PyRaised),
                                         TraceEvent("except", f, NULL, NoResp)>>
                /\ pending' = [pending EXCEPT ![f] = <<>>]
                /\ queue' = [queue EXCEPT ![f] = q]
                /\ blockNum' = [blockNum EXCEPT
                                  ![f] = AfterException(@, endBlock[f])]
                /\ UNCHANGED pc
    /\ UNCHANGED <<clock, rows, callVars, endBlock, processed, wake, classified,
                   notifications, calls, log, resp, startVars, sendVars>>

\* run_active, lines 333-335: the next operation of the block is put on the
\* queue.
RunActivePut(f) ==
    /\ pc[f] = "put"
    /\ pending[f] # <<>>
    /\ queue' = [queue EXCEPT ![f] = Append(@, Head(pending[f]))]
    /\ pending' = [pending EXCEPT ![f] = Tail(@)]
    /\ pc' = [pc EXCEPT ![f] = "run_queue"]
    /\ UNCHANGED <<clock, rows, callVars, loopVars, classified,
                   notifications, calls, log, resp, trace, startVars, sendVars>>

\* run_queue, lines 272-277, one pass of its while loop: the head of the
\* queue is given to notify.  An exception leaves run_queue and the try block
\* of run_active; a falsy response makes run_queue return the operation, and
\* run_active's queue.put(runner_resp) of line 337 is not awaited, so that the
\* coroutine it makes never runs and nothing is put on the queue.
RunQueueNotify(f) ==
    /\ pc[f] = "run_queue"
    /\ queue[f] # <<>>
    /\ Len(log) < MaxOps
    /\ LET op == Head(queue[f]) IN
        /\ Classify(op)
        /\ queue' = [queue EXCEPT ![f] = Tail(@)]
        /\ IF NotifyResult(op).kind = "raised"
           THEN /\ trace' = trace \o
                       <<TraceEvent("notify", f, op, NotifyResult(op)),
                         TraceEvent("except", f, NULL, NoResp)>>
                /\ pending' = [pending EXCEPT ![f] = <<>>]
                /\ blockNum' = [blockNum EXCEPT
                                  ![f] = AfterException(@, endBlock[f])]
                /\ pc' = [pc EXCEPT ![f] = "fetch"]
           ELSE /\ trace' = Append(trace,
                                   TraceEvent("notify", f, op, NotifyResult(op)))
                /\ pc' = [pc EXCEPT
                            ![f] = IF Truthy(NotifyResult(op))
                                   THEN "run_queue" ELSE "put"]
                /\ UNCHANGED <<pending, blockNum>>
    /\ UNCHANGED <<clock, rows, callVars, endBlock, processed, wake, classified,
                   startVars, sendVars>>

\* run_queue, lines 271 and 278: the queue is empty, None is returned.
RunQueueReturn(f) ==
    /\ pc[f] = "run_queue"
    /\ queue[f] = <<>>
    /\ pc' = [pc EXCEPT ![f] = "put"]
    /\ UNCHANGED <<clock, rows, callVars, loopVars, classified, notifyVars,
                   sendVars>>

\* run_active, lines 338-341: every operation of the block has been through
\* the queue; try_update_status is called for the block.
RunActiveUpdate(f) ==
    /\ pc[f] = "put"
    /\ pending[f] = <<>>
    /\ classified' = classified \cup {blockNum[f]}
    /\ processed' = [processed EXCEPT ![f] = @ + 1]
    /\ argBlock' = [argBlock EXCEPT ![f] = blockNum[f]]
    /\ argLease' = [argLease EXCEPT
          ![f] = NewTimeout(processed[f] + 1)]
    /\ pc' = [pc EXCEPT ![f] = "tus_now"]
    /\ trace' = Append(trace, TraceEvent("advance", f, NULL, NoResp))
    /\ UNCHANGED <<clock, rows, now, sawRow, outcome, sawExpired, blockNum,
                   endBlock, wake, notifications, calls, log, resp, queue,
                   pending, startVars, sendVars>>

NextQueue ==
    \/ Tick
    \/ AsyncTaskGetStatus(QueueFollower)
    \/ TafNow(QueueFollower)
    \/ TafSelect(QueueFollower)
    \/ TafWrite(QueueFollower)
    \/ AsyncTaskBranch(QueueFollower)
    \/ \E ok \in BOOLEAN, ops \in BlockContents :
          RunActiveGetOps(QueueFollower, ok, ops)
    \/ RunActivePut(QueueFollower)
    \/ RunQueueNotify(QueueFollower)
    \/ RunQueueReturn(QueueFollower)
    \/ RunActiveUpdate(QueueFollower)
    \/ TusNow(QueueFollower)
    \/ TusWrite(QueueFollower)
    \/ RunActiveNext(QueueFollower)
    \/ RunActiveReturn(QueueFollower)

SpecQueue == Init /\ [][NextQueue]_vars

\* Clients calling the two lease operations in any order with any arguments.
InitApi == InitLease("idle") /\ InitNotify /\ InitSend

TickApi == ClockTick(MaxApiTime)

NextApi ==
    \/ TickApi
    \/ \E f \in Followers :
        \/ \E lease \in ApiLeases : ApiTryActiveFollower(f, lease)
        \/ \E blk \in ApiBlocks, lease \in ApiLeases :
              ApiTryUpdateStatus(f, blk, lease)
        \/ TafSelect(f)
        \/ TafWrite(f)
        \/ TusWrite(f)
        \/ ApiReturn(f)

SpecApi == InitApi /\ [][NextApi]_vars

\* A follower that renews through try_update_status while the clock passes
\* its lease and another client tries to take the lease over.  The statement
\* of try_update_status is that of TusWrite; sawExpired[f] keeps, until the
\* call returns, whether the lease of the status row had run out by the
\* clock reading of the call (a history value, read by no step).
Renewing == "f1"

TusWriteObserved(f) ==
    /\ pc[f] = "tus_write"
    /\ rows' = TusExecute(rows, f, argBlock[f], now[f], argLease[f])
    /\ outcome' = [outcome EXCEPT ![f] = TusCase(rows, f, argBlock[f])]
    /\ sawExpired' = [sawExpired EXCEPT
                        ![f] = rows # <<>> /\ rows[1].lock_expires <= now[f]]
    /\ now' = [now EXCEPT ![f] = 0]
    /\ argBlock' = [argBlock EXCEPT ![f] = NoBlock]
    /\ argLease' = [argLease EXCEPT ![f] = 0]
    /\ pc' = [pc EXCEPT ![f] = "tus_get"]
    /\ UNCHANGED <<clock, sawRow, loopVars, classified, notifyVars, sendVars>>

NextRenew ==
    \/ TickApi
    \/ \E blk \in ApiBlocks, lease \in ApiLeases :
          ApiTryUpdateStatus(Renewing, blk, lease)
    \/ TusWriteObserved(Renewing)
    \/ \E f \in Followers :
        \/ \E lease \in ApiLeases : ApiTryActiveFollower(f, lease)
        \/ TafSelect(f)
        \/ TafWrite(f)
        \/ ApiReturn(f)

SpecRenew == InitApi /\ [][NextRenew]_vars

\* One dispatcher, triggered again and again, while operations are classified
\* and the clock passes the hour of the LOW window.
\* The transports objects users have stored:
SettingOptions ==
    {NoUserRow, CorruptUserRow,
     UserRow(<<Transport("wwwpoll", {VOTE})>>),
     UserRow(<<Transport("email", {VOTE, FOLLOW, ACCOUNT_UPDATE}),
               Transport("wwwpoll", {VOTE, FOLLOW, ACCOUNT_UPDATE})>>)}

\* The operations classified meanwhile: a vote of alice for bob, a vote of bob
\* for alice, alice updating her account and starting to follow bob.
FlowOps ==
    {op \in VoteOps : op.voter # op.author /\ op.trx_id = "t1"}
       \cup {op \in AccountUpdateOps : op.trx_id = "t1" /\ op.account = "alice"}
       \cup {op \in CustomJsonOps :
                /\ op.trx_id = "t1" /\ op.id = "follow" /\ op.json_tag = "follow"
                /\ op.required_posting_auths = <<"alice">>}

\* The transports the dispatcher has configured and those of them that fail.
TransportSetups ==
    {<<{"wwwpoll"}, {}>>, <<{"wwwpoll"}, {"wwwpoll"}>>,
     <<{"email", "wwwpoll"}, {}>>, <<{"email", "wwwpoll"}, {"email"}>>}

InitDispatcher ==
    /\ InitLease("idle") /\ InitNotify /\ InitLimit /\ InitDispatchers
    /\ user_settings \in [Users -> SettingOptions]
    /\ \E setup \in TransportSetups :
          /\ configured_transports = setup[1]
          /\ broken_transports = setup[2]

NextDispatch ==
    \/ ClockJump(HourWindow + 1)
    \/ \E op \in FlowOps : Notify(op)
    \/ StartCycle("d1")
    \/ LoadUser("d1")
    \/ CheckNotification("d1")
    \/ SendNotification("d1")

SpecDispatch == InitDispatcher /\ [][NextDispatch]_vars

\* A burst: ALWAYS-priority notifications for alice, created directly through
\* create_notification (the handlers create LOW ones only) with no trx_id,
\* wait for a dispatcher whose one transport works.
AlwaysNotification(to) ==
    [Notification("message", to, NULL, NULL) EXCEPT !.priority_level = ALWAYS]

InitBurst ==
    /\ InitLease("idle") /\ InitLimit /\ InitDispatchers
    /\ calls = <<>> /\ log = <<>> /\ InitQueue /\ InitStart
    /\ \E n \in 1..MaxBurst :
          notifications = [i \in 1..n |-> AlwaysNotification("alice")]
    /\ user_settings =
          [u \in Users |-> UserRow(<<Transport("wwwpoll", {"message"})>>)]
    /\ configured_transports = {"wwwpoll"}
    /\ broken_transports = {}

NextBurst ==
    \/ \E dt \in {1, HourWindow} : ClockJump(dt)
    \/ StartCycle("d1")
    \/ LoadUser("d1")
    \/ CheckNotification("d1")
    \/ SendNotification("d1")

SpecBurst == InitBurst /\ [][NextBurst]_vars

\* test_basic_ratelimit: both users take votes on one working transport;
\* votes of alice for bob are classified and dispatched, and check_ratelimit
\* is asked with override about a fresh LOW notification.  Before that, up
\* to 10 ALWAYS-priority notifications for bob were delivered in the first
\* second (as many as the ALWAYS branch admits).
VoteFlowOps == {op \in VoteOps : op.voter = "alice" /\ op.author = "bob"}

InitRatelimitFlow ==
    /\ InitLease("idle") /\ InitDispatchers
    /\ calls = <<>> /\ log = <<>> /\ InitQueue /\ InitStart
    /\ checked = NoCheck
    /\ \E k \in {n \in 0..MaxLedger : n = 0 \/ AlwaysLimit(n - 1)} :
          /\ notifications = [i \in 1..k |-> AlwaysNotification("bob")]
          /\ actions = Ledger(k, "bob", ALWAYS, 0, 0)
    /\ user_settings =
          [u \in Users |-> UserRow(<<Transport("wwwpoll", {VOTE})>>)]
    /\ configured_transports = {"wwwpoll"}
    /\ broken_transports = {}

NextRatelimitFlow ==
    \/ \E dt \in {1, HourWindow} : ClockJump(dt)
    \/ \E op \in VoteFlowOps : Notify(op)
    \/ StartCycle("d1")
    \/ LoadUser("d1")
    \/ CheckNotification("d1")
    \/ SendNotification("d1")
    \/ \E u \in Users : CheckRatelimitCall(u, LOW, TRUE)

SpecRatelimitFlow == InitRatelimitFlow /\ [][NextRatelimitFlow]_vars

\* test_vote_flow, test_follow_flow, test_account_update_flow: every user
\* takes votes, follows and account updates on the one configured, working
\* transport; votes (self-votes too), a follow and account updates are
\* classified while the dispatcher is triggered.
EndToEndOps ==
    {op \in VoteOps : op.trx_id = "t1"}
       \cup {op \in AccountUpdateOps : op.trx_id = "t1"}
       \cup {op \in CustomJsonOps :
                /\ op.trx_id = "t1" /\ op.id = "follow" /\ op.json_tag = "follow"
                /\ op.required_posting_auths = <<"alice">>}

InitFlow ==
    /\ InitLease("idle") /\ InitNotify /\ InitLimit /\ InitDispatchers
    /\ user_settings =
          [u \in Users |->
              UserRow(<<Transport("wwwpoll", {VOTE, FOLLOW, ACCOUNT_UPDATE})>>)]
    /\ configured_transports = {"wwwpoll"}
    /\ broken_transports = {}

NextFlow ==
    \/ \E op \in EndToEndOps : Notify(op)
    \/ StartCycle("d1")
    \/ LoadUser("d1")
    \/ CheckNotification("d1")
    \/ SendNotification("d1")

SpecFlow == InitFlow /\ [][NextFlow]_vars

\* The end-to-end flow on a store whose Action-count query may fail.
NextStoreError ==
    \/ NextFlow
    \/ CheckNotificationStoreError("d1")

SpecStoreError == InitFlow /\ [][NextStoreError]_vars

\* Two notification senders (two yo processes on one database) are
\* triggered while votes are classified; their statements interleave.
OverlapOps == {op \in VoteOps : op.voter # op.author /\ op.trx_id = "t1"}

NextOverlap ==
    \/ \E op \in OverlapOps : Notify(op)
    \/ \E d \in Dispatchers :
          \/ StartCycle(d)
          \/ LoadUser(d)
          \/ CheckNotification(d)
          \/ SendNotification(d)

SpecOverlap == InitFlow /\ [][NextOverlap]_vars

\* Two notification senders over more than an hour: alice votes for bob and
\* follows bob, and a sender may be held up between two of its statements.
NextOverlapHour ==
    \/ ClockJump(HourWindow + 1)
    \/ \E op \in {o \in EndToEndOps :
                    \/ o.type = "custom_json"
                    \/ o.type = "vote" /\ o.voter = "alice" /\ o.author = "bob"} :
          Notify(op)
    \/ \E d \in Dispatchers :
          \/ StartCycle(d)
          \/ LoadUser(d)
          \/ CheckNotification(d)
          \/ SendNotification(d)

SpecOverlapHour == InitFlow /\ [][NextOverlapHour]_vars

\* The classifier alone, fed operations of the event log in any order.
InitNotifier == InitLease("idle") /\ InitNotify /\ InitSend

NextNotify == \E op \in Ops : Notify(op)

SpecNotify == InitNotifier /\ [][NextNotify]_vars

\* ------------------------------------------------------------ lease claims
\* f has executed the statement of try_active_follower and not yet returned.
TafWritten(f) == pc[f] = "taf_get"
TafWon(f) == TafWritten(f) /\ outcome[f] = "won"

\* f and g race for an expired lease: both calls are in flight, each read a
\* status row whose lease had expired by its own clock reading, and each
\* clock reading lies before the end of the lease the other call asks for.
Race(f, g) ==
    /\ f # g
    /\ TafWritten(f) /\ TafWritten(g)
    /\ sawExpired[f] /\ sawExpired[g]
    /\ now[g] < now[f] + argLease[f]
    /\ now[f] < now[g] + argLease[g]

\* C1: lease mutual exclusion.  Of two concurrent try_active_follower calls
\* with different ids, both granted the status row only if the leases granted
\* do not overlap (the later grant starts at or after the end of the earlier
\* one), so while a granted lease has not expired no second call succeeds; and
\* when the two race for an expired lease exactly one wins and the status the
\* other call returns names the winner.
LeaseMutualExclusion ==
    \A f, g \in Followers :
        /\ (f # g /\ TafWon(f) /\ TafWon(g))
              => \/ now[f] + argLease[f] <= now[g]
                 \/ now[g] + argLease[g] <= now[f]
        /\ Race(f, g) => (TafWon(f) # TafWon(g))
        /\ (Race(f, g) /\ TafWon(f))
              => /\ Returned(g) # <<>>
                 /\ Returned(g)[1].active_follower_id = f

\* C1 witness: two calls raced for an expired lease and one of them won.
LeaseRaceDecided ==
    \E f, g \in Followers : Race(f, g) /\ TafWon(f) /\ ~TafWon(g)

\* f executes the statement of try_active_follower / try_update_status in
\* this step, or returns from the call.
TafWriteStep(f) == pc[f] = "taf_write" /\ pc'[f] = "taf_get"
TusWriteStep(f) == pc[f] = "tus_write" /\ pc'[f] = "tus_get"
TusReturnStep(f) == pc[f] = "tus_get" /\ pc'[f] # "tus_get"

\* f is inside run_active (the Active state).
Active(f) == pc[f] \in {"fetch", "tus_now", "tus_write", "tus_get"}

\* C2: at no time are two followers both inside run_active.
SingleActiveFollower ==
    \A f, g \in Followers : (Active(f) /\ Active(g)) => f = g

NonHolderAdvanceFails ==
    [][\A f \in Followers :
         /\ TusWriteStep(f) =>
              /\ Len(rows') = Len(rows)
              /\ \A i \in 1..Len(rows) :
                   rows[i].active_follower_id # f => rows'[i] = rows[i]
         /\ TusReturnStep(f) => rows' = rows
      ]_vars

\* C4 witness: a follower that is not the holder has called try_update_status
\* and is about to get the holder's status back.
NonHolderAdvanceTried ==
    \E f \in Followers :
        /\ pc[f] = "tus_get" /\ outcome[f] = "not_holder"
        /\ Returned(f)[1].active_follower_id # f

\* C5: every block from start_block up to last_processed_block has had its
\* operations passed to the classifier.
BlocksNeverSkipped ==
    rows # <<>> =>
        \A b \in StartBlock..rows[1].last_processed_block : b \in classified

\* C6: try_active_follower on an existing row: while the lease has not expired
\* (by the call's own clock reading, hence by the clock too) the row stays as
\* it is, whoever calls; a row is changed only when lock_expires <= now, and
\* then active_follower_id becomes the caller and lock_expires now + lease.
TakeoverGatedOnExpiry ==
    [][\A f \in Followers : TafWriteStep(f) =>
         \A i \in 1..Len(rows) :
           /\ (now[f] < rows[i].lock_expires \/ clock < rows[i].lock_expires)
                => rows'[i] = rows[i]
           /\ rows'[i] # rows[i]
                => /\ rows[i].lock_expires <= now[f]
                   /\ rows'[i] = [rows[i] EXCEPT
                                    !.active_follower_id = f,
                                    !.lock_expires = now[f] + argLease[f]]
           /\ (sawRow[f] /\ rows[i].lock_expires <= now[f])
                => rows'[i].active_follower_id = f
      ]_vars

\* C6 witness: the lease holder called try_active_follower before its lease
\* expired and the lease was not extended.
HolderLeaseNotExtended ==
    \E f \in Followers :
        /\ pc[f] = "taf_get" /\ outcome[f] = "lost"
        /\ rows[1].active_follower_id = f
        /\ now[f] < rows[1].lock_expires

\* C7: at most one ChainStatus row exists.
ChainStatusSingleton == Len(rows) <= 1

\* C8: try_active_follower leaves last_processed_block and
\* last_processed_time alone when a row exists, and creates a row
\* (start_block - 1, the caller, now + lease) only when no row exists.
BecomeActiveKeepsProgress ==
    [][\A f \in Followers : TafWriteStep(f) =>
         IF rows # <<>>
         THEN /\ Len(rows') = Len(rows)
              /\ \A i \in 1..Len(rows) :
                   /\ rows'[i].last_processed_block = rows[i].last_processed_block
                   /\ rows'[i].last_processed_time = rows[i].last_processed_time
         ELSE rows' = <<ChainStatusRow(f, StartBlock - 1, now[f],
                                       now[f] + argLease[f])>>
      ]_vars

\* ------------------------------------------------------ classifier claims
\* The classifier has been fed one operation, twice or more, and nothing else.
ClassifiedTwice ==
    /\ Len(log) >= 2
    /\ \A i \in 1..Len(log) : log[i] = log[1]

\* C9: idempotent classification.  After the same operation was classified
\* twice, the store holds exactly one row for each of its candidates.
IdempotentClassification ==
    ClassifiedTwice =>
        \A i \in 1..Len(Candidates(log[1])) :
            RowCount(notifications, Candidates(log[1])[i]) = 1

\* C10: a create_notification for index columns (to_username, notify_type,
\* trx_id, from_username) that a row already carries returns True and adds
\* no row.
DuplicateInsertSucceeds ==
    \A i \in 1..Len(calls) :
        calls[i].exists => (calls[i].result /\ ~calls[i].added)
\* ---------------------------------------------------- rate limiter claims
\* A check_ratelimit call has been made.
Checked == checked.to_username # NULL

\* c(w) for user u and tier p: the user's Actions with priority_level >= p
\* created in the trailing w seconds.
TrailingCount(u, p, w) ==
    Cardinality({i \in 1..Len(actions) :
                    /\ actions[i].to_username = u
                    /\ actions[i].priority_level >= p
                    /\ clock - actions[i].created_at <= w})

\* The admission policy table, by tier and override.
PolicyTable(u, p, override) ==
    CASE p = ALWAYS -> TrailingCount(u, ALWAYS, 3600) < 10
      [] p = PRIORITY -> IF override THEN TrailingCount(u, PRIORITY, 3600) <= 10
                         ELSE TrailingCount(u, PRIORITY, 3600) <= 1
      [] p = NORMAL -> IF override THEN TrailingCount(u, NORMAL, 60) < 3
                       ELSE TrailingCount(u, NORMAL, 60) <= 1
      [] p = LOW -> IF override THEN TrailingCount(u, LOW, 3600) < 10
                    ELSE TrailingCount(u, LOW, 3600) = 0
      [] p = MARKETING -> IF override THEN TrailingCount(u, MARKETING, 86400) <= 1
                          ELSE TrailingCount(u, MARKETING, 3600) <= 1

\* C11: for every user, tier and override value check_ratelimit returns what
\* the admission policy table says for the user's Actions.
AdmissionPolicyTable ==
    (Checked /\ checked.priority_level \in Priorities) =>
        checked.result = PolicyTable(checked.to_username,
                                     checked.priority_level, checked.override)

\* C11 witness: a soft LOW check was denied on one Action at the very edge of
\* the trailing hour, and a hard one allowed.
LowDeniedAtWindowEdge ==
    /\ Checked /\ checked.priority_level = LOW /\ ~checked.override
    /\ ~checked.result
    /\ TrailingCount(checked.to_username, LOW, 3600) = 1
    /\ \A i \in 1..Len(actions) : clock - actions[i].created_at = 3600

\* C13: nested counting.  get_priority_count counts the user's Actions at or
\* above the tier inside the window, so the count never grows with the tier,
\* and one more Action of tier q for the user raises by one the count of
\* every tier p <= q and leaves the count of every tier p > q as it is.
NestedCounting ==
    \A u \in Users, w \in {MinuteWindow, HourWindow, DayWindow} :
        /\ \A p \in Priorities :
              GetPriorityCount(actions, u, p, w, clock) = TrailingCount(u, p, w)
        /\ \A p1, p2 \in Priorities : p1 <= p2 =>
              GetPriorityCount(actions, u, p1, w, clock)
                 >= GetPriorityCount(actions, u, p2, w, clock)
        /\ \A p, q \in Priorities :
              GetPriorityCount(
                  Append(actions, Action(0, "wwwpoll", u, q, clock)), u, p, w, clock)
                = GetPriorityCount(actions, u, p, w, clock)
                     + (IF p <= q THEN 1 ELSE 0)

\* C13 witness: a PRIORITY Action of a user is counted for LOW and for
\* PRIORITY and not for ALWAYS.
HigherTierCountedForLower ==
    /\ \E i \in 1..Len(actions) :
          /\ actions[i].to_username = "alice"
          /\ actions[i].priority_level = PRIORITY
    /\ GetPriorityCount(actions, "alice", LOW, HourWindow, clock)
          > GetPriorityCount(actions, "alice", PRIORITY, HourWindow, clock)
    /\ GetPriorityCount(actions, "alice", PRIORITY, HourWindow, clock)
          > GetPriorityCount(actions, "alice", ALWAYS, HourWindow, clock)

\* C15: a priority_level outside the five tiers is denied, for both override
\* values and every ledger.
UnknownPriorityDenied ==
    (Checked /\ checked.priority_level \notin Priorities) => ~checked.result

\* C15 witness: an unknown priority_level was checked with override on an
\* empty ledger, where every tier is allowed.
UnknownPriorityChecked ==
    /\ Checked /\ checked.priority_level \notin Priorities
    /\ checked.override
    /\ actions = <<>>

\* ------------------------------------------------------- dispatcher claims
\* The check_ratelimit calls and the send_notification calls that returned,
\* as positions of events.
CheckEvents == {k \in 1..Len(events) : events[k].ev = "check"}
Delivered == {k \in 1..Len(events) : events[k].ev = "send" /\ events[k].ok}
Recipient(k) == notifications[events[k].nid].to_username
PriorityOf(k) == notifications[events[k].nid].priority_level

\* The deliveries to the recipient of check k, at or above its priority,
\* that came before the check.
DeliveredBefore(k) ==
    {j \in Delivered : j < k /\ Recipient(j) = Recipient(k)
                             /\ PriorityOf(j) >= PriorityOf(k)}

\* C12: while ALWAYS-priority notifications are sent to one user within one
\* hour, each delivery recording one Action, a notification is admitted
\* exactly when fewer than 10 were delivered before it: the first 10 are
\* admitted, the 11th and every later one is denied.
AlwaysBurstTenAdmitted ==
    clock <= HourWindow =>
        \A k \in CheckEvents :
            PriorityOf(k) = ALWAYS =>
                (events[k].ok <=> Cardinality(DeliveredBefore(k)) < 10)

\* The statement as written: only the first 9 are admitted, the 10th is
\* denied.
AlwaysBurstNineAdmitted ==
    clock <= HourWindow =>
        \A k \in CheckEvents :
            PriorityOf(k) = ALWAYS =>
                (events[k].ok <=> Cardinality(DeliveredBefore(k)) < 9)

\* Ten were delivered within the hour and the eleventh was denied.
EleventhAlwaysDenied ==
    /\ clock <= HourWindow
    /\ \E k \in CheckEvents :
          /\ PriorityOf(k) = ALWAYS /\ ~events[k].ok
          /\ Cardinality(DeliveredBefore(k)) = 10

\* The step made a check_ratelimit call of the dispatcher / a
\* send_notification call; LastEvent is what it appended.
LastEvent == events'[Len(events')]
CheckStep == Len(events') > Len(events) /\ events'[Len(events) + 1].ev = "check"
SendStep == Len(events') > Len(events) /\ LastEvent.ev = "send"

\* The dispatcher handed notification nid to a transport in the cycle of
\* check k.
PassedOn(k) ==
    \E j \in 1..Len(events) :
        /\ events[j].ev \in {"send", "unconfigured"}
        /\ events[j].nid = events[k].nid
        /\ events[j].d = events[k].d /\ events[j].cycle = events[k].cycle

\* A LOW notification is admitted by the dispatcher exactly when its
\* recipient has no Action in the trailing hour; admitted, it goes to the one
\* transport; denied, the dispatcher moves on and records nothing.
LowCheckStep ==
    CheckStep =>
        LET e == events'[Len(events) + 1]
            n == notifications[e.nid]
        IN  n.priority_level = LOW =>
              /\ e.ok <=> TrailingCount(n.to_username, LOW, 3600) = 0
              /\ e.ok => todo'[e.d] = <<"wwwpoll">>
              /\ ~e.ok => actions' = actions /\ dpc'[e.d] = "check"
                                           /\ todo'[e.d] = <<>>

\* The working transport's send returns and one Action is recorded.
LowSendStep ==
    SendStep =>
        /\ LastEvent.ok
        /\ actions' = Append(actions,
              Action(LastEvent.nid, "wwwpoll",
                     notifications[LastEvent.nid].to_username,
                     notifications[LastEvent.nid].priority_level, clock))

\* check_ratelimit with override for a LOW notification
LowOverrideStep ==
    checked' # checked =>
        (checked'.result <=>
            TrailingCount(checked'.to_username, LOW, 3600) < 10)

\* Of two LOW notifications to one user checked within one hour, the first
\* admitted, the second is denied.
SecondLowDenied ==
    clock <= HourWindow =>
        \A j, k \in CheckEvents :
            (/\ j < k /\ Recipient(j) = Recipient(k)
             /\ PriorityOf(j) = LOW /\ PriorityOf(k) = LOW
             /\ events[j].ok) => ~events[k].ok

\* A denied notification is passed to no transport in that cycle and no
\* Action names it.
DeniedNotPassedOn ==
    \A k \in CheckEvents :
        ~events[k].ok =>
            /\ ~PassedOn(k)
            /\ (\A j \in CheckEvents : events[j].nid = events[k].nid
                                            => ~events[j].ok)
                  => \A i \in 1..Len(actions) : actions[i].nid # events[k].nid

\* C14: for a user with one enabled, working transport, of two LOW
\* notifications dispatched within one hour (in one cycle or in successive
\* cycles) the first is delivered and recorded and the second is denied, is
\* passed to no transport and gets no Action; a LOW check with override is
\* allowed exactly while fewer than 10 Actions at or above LOW lie in the
\* trailing hour.
LowRatelimitScenario ==
    /\ [](SecondLowDenied /\ DeniedNotPassedOn)
    /\ [][LowCheckStep /\ LowSendStep /\ LowOverrideStep]_vars

\* Two votes for bob were dispatched in successive cycles within the hour:
\* the first was delivered, the second denied, and the check with override
\* allowed a third.
SecondVoteDeniedOverrideAllowed ==
    /\ clock <= HourWindow
    /\ \E j, k \in CheckEvents :
          /\ events[j].cycle < events[k].cycle
          /\ Recipient(j) = "bob" /\ Recipient(k) = "bob"
          /\ events[j].ok /\ ~events[k].ok
          /\ \E s \in Delivered : events[s].nid = events[j].nid
          /\ \A i \in 1..Len(actions) : actions[i].nid # events[k].nid
    /\ checked.to_username = "bob" /\ checked.override /\ checked.result

\* The transports of username's preferences whose notification_types hold
\* notify_type.
EnabledTransports(username, notify_type) ==
    LET ts == GetUserTransports(user_settings, username).transports
    IN  {ts[i].name : i \in {j \in 1..Len(ts) :
                                 notify_type \in ts[j].notification_types}}
EnabledFor(nid) ==
    EnabledTransports(notifications[nid].to_username,
                      notifications[nid].notify_type)

\* The positions of the send_notification calls, returned or raised.
SendEvents == {k \in 1..Len(events) : events[k].ev = "send"}

\* The transports whose send_notification was called for the notification of
\* check k in the cycle of that check.
SentOn(k) ==
    {events[j].transport :
        j \in {i \in SendEvents : /\ events[i].nid = events[k].nid
                                  /\ events[i].d = events[k].d
                                  /\ events[i].cycle = events[k].cycle}}

\* The dispatcher is still between check k and the end of the transports of
\* its notification.
InHand(k) ==
    /\ dpc[events[k].d] = "send"
    /\ cycles[events[k].d] = events[k].cycle
    /\ Head(Head(unsents[events[k].d]).notifications) = events[k].nid

SendOnlyEnabled ==
    \A j \in SendEvents :
        /\ events[j].transport \in EnabledFor(events[j].nid)
        /\ \E k \in CheckEvents :
              /\ k < j /\ events[k].ok /\ events[k].nid = events[j].nid
              /\ events[k].d = events[j].d /\ events[k].cycle = events[j].cycle

SendEveryEnabled ==
    \A k \in CheckEvents :
        (events[k].ok /\ ~InHand(k)) =>
            SentOn(k) = EnabledFor(events[k].nid) \cap configured_transports

NothingWhenEnabledNowhere ==
    \A j \in 1..Len(events) :
        (events[j].ev \in {"send", "unconfigured"})
            => EnabledFor(events[j].nid) # {}

\* C16: in a dispatch cycle send is invoked for a notification only on
\* transports of the recipient that enable the notification's type, and only
\* after the notification was admitted in that cycle; once it is admitted,
\* send is invoked on every such transport the dispatcher has configured; a
\* recipient for whom the type is enabled on no transport receives nothing.
FanOutPreferenceGating ==
    SendOnlyEnabled /\ SendEveryEnabled /\ NothingWhenEnabledNowhere

\* With email and wwwpoll both configured, a notification whose recipient
\* enables its type on wwwpoll alone went to wwwpoll alone, and one whose
\* recipient enables its type on both went to both.
SentToEnabledTransportsOnly ==
    /\ configured_transports = {"email", "wwwpoll"}
    /\ \E k \in CheckEvents :
          /\ events[k].ok /\ ~InHand(k)
          /\ EnabledFor(events[k].nid) = {"wwwpoll"}
          /\ SentOn(k) = {"wwwpoll"}
    /\ \E k \in CheckEvents :
          /\ events[k].ok /\ ~InHand(k)
          /\ EnabledFor(events[k].nid) = {"email", "wwwpoll"}
          /\ SentOn(k) = {"email", "wwwpoll"}

\* The Notification the classification table gives for a vote, a follow or
\* an account_update, and the acting account of the operation.
TableNotification(op) ==
    IF op.type = "vote"
    THEN [notify_type |-> "vote", to_username |-> op.author,
          from_username |-> op.voter, trx_id |-> op.trx_id,
          priority_level |-> 2]
    ELSE IF op.type = "custom_json"
    THEN [notify_type |-> "follow", to_username |-> op.json_target,
          from_username |-> op.json_actor, trx_id |-> op.trx_id,
          priority_level |-> 2]
    ELSE [notify_type |-> "account_update", to_username |-> op.account,
          from_username |-> NULL, trx_id |-> op.trx_id,
          priority_level |-> 2]
ActingAccount(op) ==
    IF op.type = "vote" THEN op.voter
    ELSE IF op.type = "custom_json" THEN op.json_actor
    ELSE op.account

\* C17: a vote produces exactly one Notification (to = author, from = voter,
\* type VOTE, priority LOW); every send caused by it has to_username equal to
\* the author, and the voter, when not the author, is never passed as its
\* recipient, even when subscribed the same way.  The same holds for follow
\* (to = following, not the follower) and account_update (to = account).
EndToEndFlow ==
    /\ log # <<>> =>
          /\ Len(calls) = 1
          /\ calls[1].notification = TableNotification(log[Len(log)])
    /\ \A i \in 1..Len(log) :
          /\ \E nid \in 1..Len(notifications) :
                notifications[nid] = TableNotification(log[i])
          /\ \A j \in SendEvents :
                notifications[events[j].nid] = TableNotification(log[i]) =>
                    /\ events[j].username = TableNotification(log[i]).to_username
                    /\ ActingAccount(log[i]) # TableNotification(log[i]).to_username
                          => events[j].username # ActingAccount(log[i])
    /\ \A j \in SendEvents :
          events[j].username = notifications[events[j].nid].to_username

\* alice voted for bob, one dispatch cycle ran, and the vote went to the
\* transport for bob; nothing was sent to alice.
VoteDeliveredToAuthorOnly ==
    /\ log = <<[type |-> "vote", trx_id |-> "t1", voter |-> "alice",
                author |-> "bob"]>>
    /\ cycles["d1"] = 1 /\ dpc["d1"] = "idle"
    /\ \E j \in SendEvents : events[j].ok /\ events[j].username = "bob"
    /\ \A j \in SendEvents : events[j].username # "alice"

\* C18: the dispatcher records one Action for every send attempt on an
\* enabled transport of an admitted notification, whether the send returned
\* or raised; so a notification whose only send attempt failed has an Action
\* and is attempted in no later cycle.
ActionPerSendAttempt ==
    /\ \A j \in SendEvents :
          Cardinality({i \in 1..Len(actions) :
                          /\ actions[i].nid = events[j].nid
                          /\ actions[i].transport = events[j].transport}) = 1
    /\ \A j, k \in SendEvents :
          (events[j].nid = events[k].nid /\ ~events[j].ok)
              => events[k].cycle = events[j].cycle

\* The attempts on a transport that did not deliver: a send that raised, a
\* transport the dispatcher has not configured.
FailedAttempts ==
    {j \in 1..Len(events) :
        \/ events[j].ev = "send" /\ ~events[j].ok
        \/ events[j].ev = "unconfigured"}

\* The cycle of event j is over.
CycleOver(j) ==
    cycles[events[j].d] > events[j].cycle \/ dpc[events[j].d] = "idle"

\* The notifications get_wwwpoll_unsents returned to the cycle of event j.
Snapshot(j) ==
    LET s == CHOOSE i \in 1..Len(events) :
                 /\ events[i].ev = "start" /\ events[i].d = events[j].d
                 /\ events[i].cycle = events[j].cycle
        groups == events[s].unsents
    IN  UNION {{groups[g].notifications[i] :
                   i \in 1..Len(groups[g].notifications)} :
               g \in 1..Len(groups)}

\* Notification nid was checked / transport t was tried for it in the cycle
\* of event j.
CheckedIn(j, nid) ==
    \E k \in CheckEvents :
        /\ events[k].nid = nid /\ events[k].d = events[j].d
        /\ events[k].cycle = events[j].cycle
TriedIn(j, t) ==
    \E k \in 1..Len(events) :
        /\ events[k].ev \in {"send", "unconfigured"}
        /\ events[k].nid = events[j].nid /\ events[k].transport = t
        /\ events[k].d = events[j].d /\ events[k].cycle = events[j].cycle

\* C19: a transport whose send raises, or one of the recipient's preferences
\* that the dispatcher has not configured, does not abort the cycle: by the
\* end of the cycle every other transport enabled for the notification was
\* tried and every notification of the cycle was checked.
FailedSendKeepsCycleGoing ==
    \A j \in FailedAttempts :
        CycleOver(j) =>
            /\ \A t \in EnabledFor(events[j].nid) : TriedIn(j, t)
            /\ \A nid \in Snapshot(j) : CheckedIn(j, nid)

\* The cycles begun, as positions of their start events.
StartEvents == {s \in 1..Len(events) : events[s].ev = "start"}

\* C20: no exception leaves run_send_notify: an admitted notification whose
\* type no transport of its recipient enables, or whose recipient's
\* preferences cannot be loaded, is skipped without raising, and every other
\* notification of the cycle is checked by the end of the cycle.
NoExceptionSurfaces ==
    /\ \A k \in 1..Len(events) : events[k].ev # "raise"
    /\ \A s \in StartEvents :
          CycleOver(s) =>
              \A nid \in Snapshot(s) :
                  GetUserTransports(user_settings,
                                    notifications[nid].to_username).loaded
                      => CheckedIn(s, nid)

\* check_ratelimit for the notification of the call made, without override
\* (the soft limit) and with it (the hard limit), on the same ledger.
SoftAllows ==
    CheckRatelimit(actions, [to_username |-> checked.to_username,
                             priority_level |-> checked.priority_level],
                   FALSE, clock)
HardAllows ==
    CheckRatelimit(actions, [to_username |-> checked.to_username,
                             priority_level |-> checked.priority_level],
                   TRUE, clock)

\* C29: for ALWAYS, PRIORITY, NORMAL and LOW, whatever is allowed without
\* override is allowed with it (for ALWAYS the two agree); for MARKETING it
\* is the other way round: whatever is allowed with override is allowed
\* without it.
OverrideDirection ==
    Checked =>
        /\ checked.result = IF checked.override THEN HardAllows ELSE SoftAllows
        /\ checked.priority_level \in {ALWAYS, PRIORITY, NORMAL, LOW}
              => (SoftAllows => HardAllows)
        /\ checked.priority_level = ALWAYS => (SoftAllows <=> HardAllows)
        /\ checked.priority_level = MARKETING => (HardAllows => SoftAllows)

\* A MARKETING check with override was denied on a ledger the check without
\* override allows.
MarketingOverrideStricter ==
    /\ Checked /\ checked.priority_level = MARKETING
    /\ checked.override /\ ~checked.result /\ SoftAllows

\* The positions of the check_ratelimit calls that denied.
Denials == {k \in CheckEvents : ~events[k].ok}

\* C21: a notification denied in a dispatch cycle is passed to no transport
\* and gets no Action in that cycle, and the next dispatch cycle finds it
\* among the unsent notifications again.
DeniedStaysUnsent ==
    \A k \in Denials :
        /\ ~PassedOn(k)
        /\ cycles[events[k].d] = events[k].cycle
              => \A i \in 1..Len(actions) : actions[i].nid # events[k].nid
        /\ \A s \in StartEvents :
              (events[s].d = events[k].d /\ events[s].cycle = events[k].cycle + 1)
                  => events[k].nid \in Snapshot(s)

\* A notification was denied in one cycle, was among the unsent
\* notifications of the next, and was admitted there.
DeniedThenAdmitted ==
    \E k \in Denials, s \in StartEvents, a \in CheckEvents :
        /\ events[s].d = events[k].d /\ events[s].cycle = events[k].cycle + 1
        /\ events[k].nid \in Snapshot(s)
        /\ events[a].nid = events[k].nid /\ events[a].ok
        /\ events[a].cycle = events[s].cycle

\* The step began a cycle.
StartStep == Len(events') > Len(events) /\ LastEvent.ev = "start"

\* The Notifications with zero Action records.
ZeroActionNids ==
    {nid \in 1..Len(notifications) :
        \A i \in 1..Len(actions) : actions[i].nid # nid}

\* What a cycle starts with is the Notifications with zero Actions, each in
\* the one group of its to_username.
UnsentsAtStart ==
    StartStep =>
        LET groups == LastEvent.unsents
            Nids(g) == {groups[g].notifications[i] :
                           i \in 1..Len(groups[g].notifications)}
        IN  /\ UNION {Nids(g) : g \in 1..Len(groups)} = ZeroActionNids
            /\ \A g \in 1..Len(groups) :
                  /\ Nids(g) = {nid \in ZeroActionNids :
                        notifications[nid].to_username = groups[g].username}
                  /\ Len(groups[g].notifications) = Cardinality(Nids(g))
            /\ \A g, h \in 1..Len(groups) :
                  groups[g].username = groups[h].username => g = h

\* The attempts to hand a notification to a transport.
Attempts ==
    {j \in 1..Len(events) : events[j].ev \in {"send", "unconfigured"}}

\* Once a notification has an Action, no later cycle passes it to a
\* transport, and no later cycle has it among its unsent notifications.
SentNeverAgain ==
    \A j \in Delivered :
        /\ \A k \in Attempts :
              events[k].nid = events[j].nid => events[k].cycle <= events[j].cycle
        /\ \A s \in StartEvents :
              events[s].cycle > events[j].cycle
                  => events[j].nid \notin Snapshot(s)
        /\ \E i \in 1..Len(actions) :
              /\ actions[i].nid = events[j].nid
              /\ actions[i].transport = events[j].transport

\* C22: the unsent set of a dispatch cycle is exactly the Notifications with
\* zero Action records, grouped by to_username; with cycles that do not
\* overlap, a notification that has an Action is passed to no transport in
\* any later cycle, even if another transport enabled for it failed.
UnsentExclusion == []SentNeverAgain /\ [][UnsentsAtStart]_vars

\* A notification failed on email and was delivered on wwwpoll; the next
\* cycle started without it.
HalfSentExcluded ==
    \E j \in Delivered, f \in FailedAttempts, s \in StartEvents :
        /\ events[f].nid = events[j].nid /\ events[f].transport = "email"
        /\ events[j].transport = "wwwpoll"
        /\ events[s].cycle = events[j].cycle + 1
        /\ events[j].nid \notin Snapshot(s)

\* C28: in every reachable state, overlapping dispatch cycles included,
\* there is at most one Action record per (notification, transport) pair.
OneActionPerPair ==
    \A i, j \in 1..Len(actions) :
        (actions[i].nid = actions[j].nid
            /\ actions[i].transport = actions[j].transport) => i = j

\* ------------------------------------------------------ classifier claims
\* The operation the last notify() was given.
LastOp == log[Len(log)]

\* A follow or reblog custom_json whose posting-authorization signers are not
\* exactly one, or whose one signer is not the acting account.
BadSigner(op) ==
    /\ op.type = "custom_json" /\ op.id = "follow"
    /\ op.json_tag \in {"follow", "reblog"}
    /\ \/ Len(op.required_posting_auths) # 1
       \/ op.required_posting_auths[1] # op.json_actor

\* run_queue, line 275: the operation is handed back for re-queueing.
HandedBack == ~Truthy(resp)

\* C23: a follow or resteem operation whose posting-authorization signers
\* are not exactly one, or whose one signer is not the acting account,
\* creates no Notification row, raises nothing out of the classifier and is
\* not handed back for a retry; every FOLLOW or RESTEEM row comes from an
\* operation signed by its acting account alone.
SignerValidation ==
    /\ (log # <<>> /\ BadSigner(LastOp)) =>
          /\ calls = <<>>
          /\ resp.kind # "raised"
          /\ ~HandedBack
    /\ \A nid \in 1..Len(notifications) :
          notifications[nid].notify_type \in {FOLLOW, RESTEEM} =>
              \E i \in 1..Len(log) :
                  /\ log[i].type = "custom_json" /\ ~BadSigner(log[i])
                  /\ log[i].trx_id = notifications[nid].trx_id
                  /\ log[i].json_actor = notifications[nid].from_username
                  /\ log[i].required_posting_auths = <<log[i].json_actor>>

\* A follow with two signers was classified: nothing was stored, and notify
\* returned the list [False, True].
TwoSignerFollowRejected ==
    /\ log # <<>>
    /\ LastOp.type = "custom_json" /\ LastOp.json_tag = "follow"
    /\ Len(LastOp.required_posting_auths) = 2
    /\ notifications = <<>> /\ calls = <<>>
    /\ resp = PyList(<<FALSE, TRUE>>)

\* C26: a transfer makes exactly two notification candidates, both of
\* priority LOW: a SEND notification addressed to the sender (the operation's
\* 'from') and a RECEIVE notification addressed to the recipient ('to') whose
\* from_username is the sender; nobody else is notified.
TransferCandidates ==
    (log # <<>> /\ LastOp.type = "transfer") =>
        /\ Len(calls) = 2
        /\ calls[1].notification.notify_type = SEND_STEEM
        /\ calls[1].notification.to_username = LastOp.from
        /\ calls[1].notification.priority_level = LOW
        /\ calls[2].notification.notify_type = RECEIVE_STEEM
        /\ calls[2].notification.to_username = LastOp.to
        /\ calls[2].notification.from_username = LastOp.from
        /\ calls[2].notification.priority_level = LOW
        /\ \A i \in 1..Len(calls) :
              /\ calls[i].notification.trx_id = LastOp.trx_id
              /\ calls[i].notification.to_username \in {LastOp.from, LastOp.to}

\* alice transfers to bob: a row for each of them has been added.
TransferBothNotified ==
    /\ log # <<>>
    /\ LastOp.type = "transfer" /\ LastOp.from = "alice" /\ LastOp.to = "bob"
    /\ Len(calls) = 2 /\ calls[1].added /\ calls[2].added
    /\ \E i, j \in 1..Len(notifications) :
          /\ notifications[i].notify_type = SEND_STEEM
          /\ notifications[i].to_username = "alice"
          /\ notifications[j].notify_type = RECEIVE_STEEM
          /\ notifications[j].to_username = "bob"

\* notify, lines 224-268: the operation kinds that have a handler.
Recognized(op) ==
    \/ op.type \in {"vote", "account_update", "transfer", "withdraw_vesting",
                    "comment"}
    \/ op.type = "custom_json" /\ op.id = "follow"

\* C27: an operation of a kind without a handler produces no notification,
\* is reported by notify as handled (True) and is not handed back for a
\* retry.
UnrecognizedIsNoOp ==
    (log # <<>> /\ ~Recognized(LastOp)) =>
        /\ calls = <<>>
        /\ resp = PyBool(TRUE)
        /\ ~HandedBack

\* A feed_publish operation was classified after a vote had been stored: the
\* store still holds the vote's row alone.
UnrecognizedAfterVote ==
    /\ Len(log) = 2
    /\ log[1].type = "vote" /\ LastOp.type = "feed_publish"
    /\ Len(notifications) = 1 /\ calls = <<>>
    /\ resp = PyBool(TRUE)

\* ------------------------------------------------------- run_active claims
\* The follower is inside a call of run_active and has begun its first pass.
InRunActive(f) ==
    /\ endBlock[f] > 0
    /\ ~(pc[f] = "fetch" /\ FirstPass(f))

TraceIndexes(ev) == {i \in 1..Len(trace) : trace[i].ev = ev}
FetchedBlocks == {trace[i].block : i \in TraceIndexes("fetch")}
\* The blocks whose pass the call has begun: the for loop's range up to
\* block_num.
BegunBlocks(f) ==
    (endBlock[f] - MaxBlocks)..(blockNum[f] - IF pc[f] = "fetch" THEN 1 ELSE 0)

\* C24: an exception raised while a block is fetched or classified is caught
\* and does not halt the follower: the for loop of run_active goes on with
\* the next block, so that every block of the window up to the current one
\* has been fetched, whatever exceptions the earlier ones raised, and an
\* exception leaves the follower at the fetch of the next block or at the
\* end of the call.
BlockExceptionCaught ==
    InRunActive(QueueFollower) =>
        /\ FetchedBlocks = BegunBlocks(QueueFollower)
        /\ \A i \in TraceIndexes("except") :
              \/ \E j \in TraceIndexes("fetch") :
                    j > i /\ trace[j].block = trace[i].block + 1
              \/ /\ i = Len(trace)
                 /\ pc[QueueFollower] = "fetch"
                 /\ blockNum[QueueFollower] = trace[i].block + 1

\* The first block of a window raised while it was classified, and the
\* second block has been fetched, classified and stored since.
LaterBlockClassified ==
    /\ InRunActive(QueueFollower)
    /\ \E i \in TraceIndexes("except"), j \in TraceIndexes("notify") :
          /\ i > 1 /\ trace[i - 1].ev = "notify"
          /\ j > i /\ trace[j].block = trace[i].block + 1
          /\ trace[j].op.type = "vote"
    /\ Len(notifications) = 1
    /\ pc[QueueFollower] = "tus_now"

\* The classification recorded at trace[i] was not completed: notify raised
\* or answered with a falsy value.
NotifyFailed(i) ==
    /\ trace[i].ev = "notify"
    /\ (trace[i].resp.kind = "raised" \/ ~Truthy(trace[i].resp))

\* trace[j] ends the pass of run_active's for loop for the block of trace[i].
EndsPass(i, j) ==
    /\ j > i
    /\ trace[j].ev \in {"advance", "except"}
    /\ trace[j].block = trace[i].block

\* trace[j] is another notify call for the operation and block of trace[i].
SameOperation(i, j) ==
    /\ trace[j].ev = "notify"
    /\ trace[j].block = trace[i].block
    /\ trace[j].op = trace[i].op

HolderStopped ==
    /\ pc[Stopping] = "stopped"
    /\ rows # <<>>
    /\ rows[1].active_follower_id = Stopping
    /\ endBlock[Running] <= MaxBlockNum + 1

\* The running follower is recorded as the active one and is at the first
\* block of its window, the one after last_processed_block.
TakenOver ==
    /\ rows # <<>>
    /\ rows[1].active_follower_id = Running
    /\ pc[Running] = "fetch"
    /\ blockNum[Running] = rows[1].last_processed_block + 1

\* async_task, lines 318-321: the running follower goes to sleep, until the
\* lock_expires of the status its call has just returned.
GoesToSleep ==
    (pc[Running] # "sleep" /\ pc'[Running] = "sleep") =>
        /\ rows # <<>>
        /\ wake'[Running] = rows[1].lock_expires

\* C25: when the follower recorded as active has stopped and the other one
\* keeps running, the other one is eventually recorded as active_follower_id
\* and begins its window at last_processed_block + 1; a follower that is
\* not active sleeps until the lock_expires it has read, and its sleep ends.
TakeoverLiveness ==
    /\ HolderStopped ~> TakenOver
    /\ (pc[Running] = "sleep") ~> (pc[Running] = "loop")
    /\ [][GoesToSleep]_vars

\* The stopped follower was inside run_active, and the running one has taken
\* the only status row over at a time at which the stopped one no longer
\* ran, and is at the first block of its window.
TakenOverFromStopped ==
    /\ pc[Stopping] = "stopped" /\ endBlock[Stopping] > 0
    /\ Len(rows) = 1
    /\ TakenOver
    /\ rows[1].lock_expires > MaxHolderTime + LeaseBlocks * BlockInterval

\* ------------------------------------------------- active window claims
\* try_update_status of f has returned without changing the row, because
\* the status row names another follower as the active one.
LostLeadership(f) == pc[f] = "tus_get" /\ outcome[f] = "not_holder"

\* C31: a follower whose try_update_status failed because another follower
\* has become active_follower_id fetches no further block of its window:
\* its next step does not lead to the fetch of a block of the window.
LostLeaderGoesIdle ==
    [][\A f \in Followers :
          (LostLeadership(f) /\ pc'[f] = "fetch") => blockNum'[f] >= endBlock[f]]_vars

\* try_update_status has been called for the block f is at and has not
\* returned yet.
Advancing(f) == pc[f] \in {"tus_now", "tus_write"}

\* The passes of the current run_active call come in strictly increasing
\* block number, beginning with the first block of the range.
IncreasingBlocks ==
    InRunActive(QueueFollower) =>
        /\ trace # <<>> /\ trace[1].ev = "fetch"
        /\ trace[1].block = endBlock[QueueFollower] - MaxBlocks
        /\ \A i, j \in 1..Len(trace) :
              i < j => /\ trace[i].block <= trace[j].block
                       /\ trace[j].ev = "fetch" => trace[i].block < trace[j].block

\* One step of the follower: the window begins at last_processed_block + 1;
\* an operation leaves pending only for the queue, and leaves the queue only
\* for notify, unless an exception ends the pass without try_update_status.
DrainStep(f) ==
    /\ (pc[f] = "taf_get" /\ pc'[f] = "fetch") =>
          blockNum'[f] = rows[1].last_processed_block + 1
    /\ (pc[f] = "put" /\ pending'[f] # pending[f]) =>
          /\ pending[f] # <<>> /\ pending'[f] = Tail(pending[f])
          /\ queue'[f] = Append(queue[f], Head(pending[f]))
    /\ (pc[f] = "run_queue" /\ queue'[f] # queue[f]) =>
          /\ queue[f] # <<>> /\ queue'[f] = Tail(queue[f])
          /\ log' = Append(log, Head(queue[f]))
          /\ \/ pending'[f] = pending[f]
             \/ pc'[f] = "fetch" /\ blockNum'[f] = blockNum[f] + 1
    /\ (pc[f] # "tus_now" /\ pc'[f] = "tus_now") =>
          pc[f] = "put" /\ pending[f] = <<>> /\ queue[f] = <<>>

\* C32: within one window the follower handles blocks in strictly
\* increasing block number beginning at last_processed_block + 1, and
\* try_update_status is called for a block only when every operation of the
\* block has been taken off the queue and given to notify: the queue is
\* empty, and nothing of the block is pending, when the call is made.
DrainedBeforeAdvance ==
    /\ [](IncreasingBlocks)
    /\ [](Advancing(QueueFollower) =>
            /\ queue[QueueFollower] = <<>> /\ pending[QueueFollower] = <<>>
            /\ trace[Len(trace)].ev = "advance"
            /\ trace[Len(trace)].block = blockNum[QueueFollower])
    /\ [][DrainStep(QueueFollower)]_vars

\* Both blocks of a window held one operation; each was classified before
\* try_update_status was called for its block, and the second call is under
\* way with an empty queue.
BothBlocksDrained ==
    /\ pc[QueueFollower] = "tus_now"
    /\ Len(trace) = 6
    /\ trace[1].ev = "fetch" /\ trace[2].ev = "notify" /\ trace[3].ev = "advance"
    /\ trace[4].ev = "fetch" /\ trace[5].ev = "notify" /\ trace[6].ev = "advance"
    /\ trace[4].block = trace[1].block + 1
    /\ queue[QueueFollower] = <<>>

\* The try_update_status calls made so far in the current run_active call.
AdvanceCount == Cardinality(TraceIndexes("advance"))
\* The blocks of the window after the one the follower is at.
BlocksRemaining(f) == endBlock[f] - 1 - blockNum[f]
\* The lease the status row was last given, in clock ticks.
RowLease == rows[1].lock_expires - rows[1].last_processed_time

\* A step that calls try_update_status again in the same run_active call
\* asks for a shorter lease than the call before it was given.
LeaseShrinks(f) ==
    (pc[f] = "put" /\ pc'[f] = "tus_now" /\ AdvanceCount >= 1) =>
        argLease'[f] < RowLease

\* C33: the k-th try_update_status call of a window of MaxBlocks blocks
\* (the one after the k-th block that was processed without an exception)
\* asks for a lease of (MaxBlocks + 1 - k) * BlockInterval; the lease is never
\* below BlockInterval, never below the time for the blocks remaining in the
\* window plus one, and strictly shorter than that of the call before it.
LeaseLength ==
    /\ [](Advancing(QueueFollower) =>
            /\ AdvanceCount \in 1..MaxBlocks
            /\ argLease[QueueFollower]
                  = (MaxBlocks + 1 - AdvanceCount) * BlockInterval
            /\ argLease[QueueFollower] >= BlockInterval
            /\ argLease[QueueFollower]
                  >= (BlocksRemaining(QueueFollower) + 1) * BlockInterval)
    /\ [][LeaseShrinks(QueueFollower)]_vars

\* The last block of a window is the MaxBlocks-th one processed: the lease
\* asked for is one block interval.
LastBlockShortestLease ==
    /\ pc[QueueFollower] = "tus_write"
    /\ AdvanceCount = MaxBlocks
    /\ BlocksRemaining(QueueFollower) = 0
    /\ argLease[QueueFollower] = BlockInterval

\* ------------------------------------------------------- record claims
\* The Actions of a user, over all time.
ActionCount(acts, u) ==
    Cardinality({i \in 1..Len(acts) : acts[i].to_username = u})

\* One step keeps every Notification and Action row as it is and at most
\* adds rows at the end; an added Action repeats nid, to_username and
\* priority_level of its notification and names the transport of the send
\* that has just returned.
RowsOnlyAdded ==
    /\ Len(notifications') >= Len(notifications)
    /\ \A i \in 1..Len(notifications) : notifications'[i] = notifications[i]
    /\ Len(actions') >= Len(actions)
    /\ \A i \in 1..Len(actions) : actions'[i] = actions[i]
    /\ \A i \in (Len(actions) + 1)..Len(actions') :
          /\ actions'[i].nid \in 1..Len(notifications)
          /\ actions'[i].to_username = notifications[actions'[i].nid].to_username
          /\ actions'[i].priority_level
                = notifications[actions'[i].nid].priority_level
          /\ events' # events
          /\ events'[Len(events')].ev = "send" /\ events'[Len(events')].ok
          /\ events'[Len(events')].nid = actions'[i].nid
          /\ events'[Len(events')].transport = actions'[i].transport
    /\ \A u \in Users : ActionCount(actions', u) >= ActionCount(actions, u)

\* C34: Notification and Action rows are only ever added, never changed or
\* deleted, by the dispatcher and the classifier, so that no user's Action
\* count decreases; every Action has the nid, to_username and priority_level
\* of the notification it was made for and the transport just attempted.
AppendOnlyMirror ==
    /\ [](\A i \in 1..Len(actions) :
            /\ actions[i].nid \in 1..Len(notifications)
            /\ actions[i].to_username = notifications[actions[i].nid].to_username
            /\ actions[i].priority_level
                  = notifications[actions[i].nid].priority_level)
    /\ [][RowsOnlyAdded]_vars

\* One notification was delivered on two transports, and another
\* notification has been stored since.
TwoActionsThenNewRow ==
    /\ Len(actions) = 2
    /\ actions[1].nid = actions[2].nid
    /\ actions[1].transport # actions[2].transport
    /\ Len(notifications) > actions[1].nid

\* ----------------------------------------------------- start block claim
\* C35: get_start_block returns None for a blank start_block, the integer
\* itself for a non-negative one, and the head block number minus k for a
\* negative one, -k.
StartBlockResolution ==
    start_block # StartNotCalled =>
        IF start_config = <<>> THEN start_block = StartNone
        ELSE IF Head(start_config) = "-"
             THEN start_block
                    = StartInt(head_block - DecimalValue(Tail(start_config)))
             ELSE start_block = StartInt(DecimalValue(start_config))

\* ------------------------------------------------------- chain head claim
\* C36: last_processed_block never passes the head block number of the
\* chain: no block the chain does not hold yet is recorded as processed.
HeadNeverPassed ==
    \A i \in 1..Len(rows) :
        rows[i].last_processed_block # NoBlock =>
            rows[i].last_processed_block <= head_block

\* ------------------------------------------------------- renewal claim
\* try_update_status of f has executed its statement on a status row that
\* named f, held a block not above the one passed, and whose lease had run
\* out by the clock reading of the call.
RenewedAfterExpiry(f) ==
    /\ pc[f] = "tus_get"
    /\ sawExpired[f]
    /\ outcome[f] \in {"advanced", "refreshed"}

\* The statement of try_update_status by the recorded active follower, with
\* a block not below the row's, rewrites the row whether or not the lease
\* has run out: block, time and a lease from the call's clock reading.
RenewStep(f) ==
    TusWriteStep(f) =>
        \A i \in 1..Len(rows) :
            (/\ rows[i].active_follower_id = f
             /\ rows[i].last_processed_block # NoBlock
             /\ argBlock[f] >= rows[i].last_processed_block)
            => rows'[i] = [rows[i] EXCEPT
                             !.last_processed_block = argBlock[f],
                             !.last_processed_time = now[f],
                             !.lock_expires = now[f] + argLease[f]]

OwnActions(u) ==
    LET Own(a) == a.to_username = u IN SelectSeq(actions, Own)

\* C38: rate limiting is isolated per recipient: what check_ratelimit
\* returns for a notification to user u is what it returns on the Actions
\* of u alone, with the same tier, override and time, so the Actions of
\* other users never change it; and the check adds and changes no Action
\* and no notification.
PerRecipientLimit ==
    [][checked' # checked =>
         /\ checked'.result =
               LET Own(a) == a.to_username = checked'.to_username
               IN  CheckRatelimit(SelectSeq(actions, Own),
                      [to_username |-> checked'.to_username,
                       priority_level |-> checked'.priority_level],
                      checked'.override, clock)
         /\ actions' = actions
         /\ notifications' = notifications
      ]_vars

\* A soft LOW check for bob was allowed while alice has a LOW Action inside
\* the hour, which would have denied it had it been counted.
AllowedBesideOthersActions ==
    /\ checked.to_username = "bob"
    /\ checked.priority_level = LOW
    /\ ~checked.override
    /\ checked.result
    /\ OwnActions("bob") = <<>>
    /\ \E i \in 1..Len(actions) :
          /\ actions[i].to_username = "alice"
          /\ actions[i].priority_level = LOW
          /\ actions[i].created_at >= clock - HourWindow

\* C39: when the Action-count query fails with a store error, the
\* notification is treated as failed for this attempt: check_ratelimit does
\* not admit it and the dispatcher goes on without sending it (the rate
\* limiter does not fail open).
StoreErrorNotAdmitted ==
    [][checked' # checked =>
         /\ ~checked'.result
         /\ dpc'["d1"] # "send"
         /\ todo'["d1"] = <<>>
      ]_vars

\* C40: the soft LOW limit holds under overlapping dispatch cycles: for a
\* user with one enabled transport, no two LOW notifications have Actions
\* less than 3600 seconds apart, also when two dispatch cycles interleave
\* their admission checks and their Action inserts.
OneLowPerHour ==
    \A i, j \in 1..Len(actions) :
        (/\ actions[i].to_username = actions[j].to_username
         /\ actions[i].priority_level = LOW
         /\ actions[j].priority_level = LOW
         /\ actions[i].nid # actions[j].nid
         /\ actions[i].created_at <= actions[j].created_at)
        => actions[j].created_at - actions[i].created_at >= HourWindow
====
